---- MODULE Spec2Model ----
(***************************************************************************)
(* typeorm-dbml-generator: metadata extraction (ConstraintExtractor,       *)
(* RelationExtractor, ColumnExtractor, MetadataExtractor) and document     *)
(* emission (DBMLGenerator, TableGenerator, TypeMapper, RelationGenerator),*)
(* and the watch mode of the CLI.                                          *)
(*                                                                         *)
(* Text is a sequence of one-character strings, so that the conversions    *)
(* of the code (quote stripping, snake-casing, identifier quoting) are     *)
(* computed character by character.  Fixed vocabulary that the code only   *)
(* compares with constants (decorator names, syntax kinds, option keys,    *)
(* relation types) is kept as TLA+ strings.  An optional value is a        *)
(* sequence of length 0 (undefined) or 1.                                  *)
(***************************************************************************)
EXTENDS Integers, Sequences, FiniteSets, TLC

VARIABLES
    input,      \* the ClassDeclaration[] handed to extractMetadata
    enumsMap,   \* MetadataExtractor.enumsMap, in insertion order
    schema,     \* the DBMLSchema returned by the last extractMetadata call
    refs,       \* the text returned by the last generateRelations call
    pc,         \* position of the caller: "parsed" to "generated", "written", "serialized", "mapped", "watching"
    genOptions, \* the GeneratorOptions handed to new DBMLGenerator(options)
    dbml,       \* the text returned by the last DBMLGenerator.generate call
    callArg,    \* the argument of a helper called on its own
    callResult, \* what that helper returned: the results of toSnakeCase, the text of mapType
    watch       \* the CLI in watch mode: clock, debounce timer, file events, regenerations

vars == <<input, enumsMap, schema, refs, pc, genOptions, dbml, callArg, callResult, watch>>

----------------------------------------------------------------------------
(* Optional values and text *)

None == <<>>
Some(v) == <<v>>
IsSome(o) == Len(o) > 0
Val(o) == o[1]

\* JavaScript truthiness of an optional string: undefined and '' are falsy
Truthy(o) == IsSome(o) /\ Len(Val(o)) > 0

\* a || b  for an optional string a
OrElse(o, d) == IF Truthy(o) THEN Val(o) ELSE d

UpperSeq == <<"A","B","C","D","E","F","G","H","I","J","K","L","M",
              "N","O","P","Q","R","S","T","U","V","W","X","Y","Z">>
LowerSeq == <<"a","b","c","d","e","f","g","h","i","j","k","l","m",
              "n","o","p","q","r","s","t","u","v","w","x","y","z">>
Digits == {"0","1","2","3","4","5","6","7","8","9"}

IsUpper(c) == \E i \in 1..26 : UpperSeq[i] = c
IsLower(c) == \E i \in 1..26 : LowerSeq[i] = c
LowerOf(c) == IF IsUpper(c) THEN LowerSeq[CHOOSE i \in 1..26 : UpperSeq[i] = c] ELSE c
UpperOf(c) == IF IsLower(c) THEN UpperSeq[CHOOSE i \in 1..26 : LowerSeq[i] = c] ELSE c

toLowerCase(s) == [i \in 1..Len(s) |-> LowerOf(s[i])]
toUpperCase(s) == [i \in 1..Len(s) |-> UpperOf(s[i])]

RECURSIVE Join(_, _)
Join(parts, sep) ==
    IF Len(parts) = 0 THEN <<>>
    ELSE IF Len(parts) = 1 THEN parts[1]
    ELSE parts[1] \o sep \o Join(Tail(parts), sep)

RECURSIVE Flatten(_)
Flatten(parts) == IF Len(parts) = 0 THEN <<>> ELSE parts[1] \o Flatten(Tail(parts))

\* text.replace(/['"]/g, '')
StripQuotes(s) == SelectSeq(s, LAMBDA c : c \notin {"'", "\""})

NL == <<"\n">>
SP == <<" ">>

\* str.replace(/([A-Z])/g, '_$1')
RECURSIVE PrefixUpper(_)
PrefixUpper(s) ==
    IF Len(s) = 0 THEN <<>>
    ELSE (IF IsUpper(s[1]) THEN <<"_", s[1]>> ELSE <<s[1]>>) \o PrefixUpper(Tail(s))

toSnakeCase(str) ==
    LET r == toLowerCase(PrefixUpper(str))
    IN  IF Len(r) > 0 /\ r[1] = "_" THEN Tail(r) ELSE r

\* /[^a-zA-Z0-9_]/.test(identifier)
IsWordChar(c) == IsUpper(c) \/ IsLower(c) \/ c \in Digits \/ c = "_"
NeedsQuote(identifier) == \E i \in 1..Len(identifier) : ~IsWordChar(identifier[i])

escapeIdentifier(identifier) ==
    IF NeedsQuote(identifier) THEN <<"\"">> \o identifier \o <<"\"">> ELSE identifier

----------------------------------------------------------------------------
(* The parsed source (ts-morph nodes), as far as the extractors read it *)

Node(k, t, es, ps, b, sy) ==
    [kind |-> k, text |-> t, elements |-> es, props |-> ps, body |-> b, symbol |-> sy]

StrLit(s) == Node("StringLiteral", <<"'">> \o s \o <<"'">>, <<>>, <<>>, <<>>, None)
Keyword(s) == Node("Keyword", s, <<>>, <<>>, <<>>, None)
ArrLit(es) ==
    Node("ArrayLiteralExpression",
         <<"[">> \o Join([i \in 1..Len(es) |-> es[i].text], <<",", " ">>) \o <<"]">>,
         es, <<>>, <<>>, None)
\* an object literal; a member is [kind, name, init], init an optional node
Assign(n, v) == [kind |-> "PropertyAssignment", name |-> n, init |-> Some(v)]
Shorthand(n) == [kind |-> "ShorthandPropertyAssignment", name |-> n, init |-> None]
ObjLit(ps) == Node("ObjectLiteralExpression", <<"{", "}">>, <<>>, ps, <<>>, None)
\* () => body
Arrow(b) == Node("ArrowFunction", <<"(", ")", " ", "=", ">", " ">> \o b, <<>>, <<>>, b, None)
\* a plain reference; sy is the symbol its type resolves to (optional)
Ident(t, sy) == Node("Identifier", t, <<>>, <<>>, <<>>, sy)

Decorator(n, as) == [name |-> n, args |-> as]

\* decorators.find(d => names.includes(d.getName()))
FindDecorator(decorators, names) ==
    LET hits == SelectSeq(decorators, LAMBDA d : d.name \in names)
    IN  IF Len(hits) = 0 THEN None ELSE Some(hits[1])

----------------------------------------------------------------------------
(* ConstraintExtractor *)

T_true == <<"t","r","u","e">>
T_false == <<"f","a","l","s","e">>
UsingTypes == { <<"b","t","r","e","e">>, <<"h","a","s","h">>, <<"g","i","s","t">>, <<"g","i","n">> }

\* the elements of s that satisfy P, mapped through F, in order
FilterMap(s, P(_), F(_)) ==
    LET sel == SelectSeq(s, P) IN [i \in 1..Len(sel) |-> F(sel[i])]

extractColumnsFromArray(arrayLiteral) ==
    IF arrayLiteral.kind # "ArrayLiteralExpression" THEN <<>>
    ELSE FilterMap(arrayLiteral.elements,
                   LAMBDA e : e.kind = "StringLiteral",
                   LAMBDA e : StripQuotes(e.text))

NewIndexMetadata(cols) ==
    [name |-> None, columns |-> cols, isUnique |-> FALSE, isSpatial |-> None,
     isFulltext |-> None, where |-> None, type |-> None]

\* one iteration of the loop of extractIndexOptions
IndexOption(prop, metadata) ==
    IF prop.kind # "PropertyAssignment" \/ ~IsSome(prop.init) THEN metadata
    ELSE LET value == Val(prop.init).text
         IN  CASE prop.name = "unique"   -> [metadata EXCEPT !.isUnique = (value = T_true)]
               [] prop.name = "spatial"  -> [metadata EXCEPT !.isSpatial = Some(value = T_true)]
               [] prop.name = "fulltext" -> [metadata EXCEPT !.isFulltext = Some(value = T_true)]
               [] prop.name = "where"    -> [metadata EXCEPT !.where = Some(StripQuotes(value))]
               [] prop.name = "using"    ->
                    LET typeValue == toLowerCase(StripQuotes(value))
                    IN  IF typeValue \in UsingTypes
                        THEN [metadata EXCEPT !.type = Some(typeValue)]
                        ELSE metadata
               [] OTHER -> metadata

RECURSIVE IndexOptionsLoop(_, _)
IndexOptionsLoop(props, metadata) ==
    IF Len(props) = 0 THEN metadata
    ELSE IndexOptionsLoop(Tail(props), IndexOption(props[1], metadata))

extractIndexOptions(options, metadata) == IndexOptionsLoop(options.props, metadata)

\* the class-level @Index(...) decorator: an optional IndexMetadata
extractIndexFromDecorator(decorator) ==
    LET args == decorator.args
        m0 == NewIndexMetadata(<<>>)
    IN  IF Len(args) = 0 THEN None
        ELSE
          LET firstArg == args[1]
              afterFirst ==
                CASE firstArg.kind = "ArrayLiteralExpression" ->
                       [m |-> [m0 EXCEPT !.columns = extractColumnsFromArray(firstArg)], idx |-> 1]
                  [] firstArg.kind = "StringLiteral" ->
                       LET named == [m0 EXCEPT !.name = Some(StripQuotes(firstArg.text))]
                       IN  IF Len(args) > 1 /\ args[2].kind = "ArrayLiteralExpression"
                           THEN [m |-> [named EXCEPT !.columns = extractColumnsFromArray(args[2])],
                                 idx |-> 2]
                           ELSE [m |-> named, idx |-> 1]
                  [] OTHER -> [m |-> m0, idx |-> 0]
              lastArg == args[afterFirst.idx + 1]
              metadata ==
                IF Len(args) > afterFirst.idx /\ lastArg.kind = "ObjectLiteralExpression"
                THEN extractIndexOptions(lastArg, afterFirst.m)
                ELSE afterFirst.m
          IN  \* Case 3 returns before the check of the column list
              IF firstArg.kind = "ObjectLiteralExpression"
              THEN Some(extractIndexOptions(firstArg, m0))
              ELSE IF Len(metadata.columns) > 0 THEN Some(metadata) ELSE None

\* one iteration of the loop over the arguments of a property-level @Index
PropertyIndexArg(arg, metadata) ==
    IF arg.kind = "StringLiteral" THEN [metadata EXCEPT !.name = Some(StripQuotes(arg.text))]
    ELSE IF arg.kind = "ObjectLiteralExpression" THEN extractIndexOptions(arg, metadata)
    ELSE metadata

RECURSIVE PropertyIndexArgsLoop(_, _)
PropertyIndexArgsLoop(args, metadata) ==
    IF Len(args) = 0 THEN metadata
    ELSE PropertyIndexArgsLoop(Tail(args), PropertyIndexArg(args[1], metadata))

extractIndexFromPropertyDecorator(decorator, propertyName) ==
    Some(PropertyIndexArgsLoop(decorator.args, NewIndexMetadata(<<toSnakeCase(propertyName)>>)))

\* the @Index decorators of the properties, property by property
RECURSIVE PropertyIndexes(_)
PropertyIndexes(properties) ==
    IF Len(properties) = 0 THEN <<>>
    ELSE LET property == properties[1]
             found == FilterMap(property.decorators,
                                LAMBDA d : d.name = "Index",
                                LAMBDA d : extractIndexFromPropertyDecorator(d, property.name))
         IN  FilterMap(found, IsSome, Val) \o PropertyIndexes(Tail(properties))

extractIndexes(classDecl) ==
    LET found == FilterMap(classDecl.decorators,
                           LAMBDA d : d.name = "Index",
                           extractIndexFromDecorator)
    IN  FilterMap(found, IsSome, Val) \o PropertyIndexes(classDecl.properties)

extractUniqueFromDecorator(decorator) ==
    LET args == decorator.args
        m0 == [name |-> None, columns |-> <<>>]
    IN  IF Len(args) = 0 THEN None
        ELSE
          LET firstArg == args[1]
              metadata ==
                CASE firstArg.kind = "ArrayLiteralExpression" ->
                       [m0 EXCEPT !.columns = extractColumnsFromArray(firstArg)]
                  [] firstArg.kind = "StringLiteral" ->
                       LET named == [m0 EXCEPT !.name = Some(StripQuotes(firstArg.text))]
                       IN  IF Len(args) > 1 /\ args[2].kind = "ArrayLiteralExpression"
                           THEN [named EXCEPT !.columns = extractColumnsFromArray(args[2])]
                           ELSE named
                  [] OTHER -> m0
          IN  IF Len(metadata.columns) > 0 THEN Some(metadata) ELSE None

extractUniques(classDecl) ==
    FilterMap(FilterMap(classDecl.decorators,
                        LAMBDA d : d.name = "Unique",
                        extractUniqueFromDecorator),
              IsSome, Val)

extractCheckFromDecorator(decorator) ==
    LET args == decorator.args
    IN  IF Len(args) = 0 THEN None
        ELSE LET expression == StripQuotes(args[1].text)
                 name == IF Len(args) > 1 /\ args[2].kind = "StringLiteral"
                         THEN Some(StripQuotes(args[2].text)) ELSE None
             IN  IF Len(expression) > 0
                 THEN Some([expression |-> expression, name |-> name])
                 ELSE None

extractChecks(classDecl) ==
    FilterMap(FilterMap(classDecl.decorators,
                        LAMBDA d : d.name = "Check",
                        extractCheckFromDecorator),
              IsSome, Val)

extractConstraints(classDecl) ==
    [indexes |-> extractIndexes(classDecl),
     uniques |-> extractUniques(classDecl),
     checks  |-> extractChecks(classDecl)]

----------------------------------------------------------------------------
(* RelationExtractor *)

RelationDecorators == {"OneToOne", "ManyToOne", "OneToMany", "ManyToMany"}

RelationTypeOf(decoratorName) ==
    CASE decoratorName = "OneToOne"   -> "one-to-one"
      [] decoratorName = "ManyToOne"  -> "many-to-one"
      [] decoratorName = "OneToMany"  -> "one-to-many"
      [] decoratorName = "ManyToMany" -> "many-to-many"

T_Unknown == <<"U","n","k","n","o","w","n">>
T_id == <<"i","d">>
T__id == <<"_","i","d">>

\* the longest run of word characters of s that starts at position i
RECURSIVE WordRun(_, _)
WordRun(s, i) ==
    IF i > Len(s) \/ ~IsWordChar(s[i]) THEN <<>> ELSE <<s[i]>> \o WordRun(s, i + 1)

\* bodyText.match(/\w+\.(\w+)/): the captured group of the leftmost match
MatchMemberAccess(bodyText) ==
    LET dots == {i \in 2..(Len(bodyText) - 1) :
                    /\ bodyText[i] = "."
                    /\ IsWordChar(bodyText[i - 1])
                    /\ IsWordChar(bodyText[i + 1])}
    IN  IF dots = {} THEN None
        ELSE LET first == CHOOSE i \in dots : \A j \in dots : i <= j
             IN  Some(WordRun(bodyText, first + 1))

\* one iteration of the loop over the options literal of a relation decorator
RelationOption(prop, acc) ==
    IF prop.kind # "PropertyAssignment" \/ ~IsSome(prop.init) THEN acc
    ELSE LET value == StripQuotes(Val(prop.init).text)
         IN  IF prop.name = "onDelete" THEN [acc EXCEPT !.onDelete = Some(toUpperCase(value))]
             ELSE IF prop.name = "onUpdate" THEN [acc EXCEPT !.onUpdate = Some(toUpperCase(value))]
             ELSE acc

RECURSIVE RelationOptionsLoop(_, _)
RelationOptionsLoop(props, acc) ==
    IF Len(props) = 0 THEN acc
    ELSE RelationOptionsLoop(Tail(props), RelationOption(props[1], acc))

extractRelationArguments(decorator) ==
    LET args == decorator.args
        target ==
            IF Len(args) > 0
            THEN IF args[1].kind = "ArrowFunction" THEN args[1].body ELSE args[1].text
            ELSE T_Unknown
        inverseSide ==
            IF Len(args) > 1 /\ args[2].kind = "ArrowFunction"
            THEN MatchMemberAccess(args[2].body)
            ELSE None
        acc0 == [target |-> target, inverseSide |-> inverseSide,
                 onDelete |-> None, onUpdate |-> None]
    IN  IF Len(args) > 2 /\ args[3].kind = "ObjectLiteralExpression"
        THEN RelationOptionsLoop(args[3].props, acc0)
        ELSE acc0

\* one iteration of the loop over a join-column literal
JoinColumnOption(prop, joinColumn) ==
    IF prop.kind # "PropertyAssignment" \/ ~IsSome(prop.init) THEN joinColumn
    ELSE LET value == StripQuotes(Val(prop.init).text)
         IN  IF prop.name = "name" THEN [joinColumn EXCEPT !.name = Some(value)]
             ELSE IF prop.name = "referencedColumnName"
                  THEN [joinColumn EXCEPT !.referencedColumnName = Some(value)]
                  ELSE joinColumn

RECURSIVE JoinColumnOptionsLoop(_, _)
JoinColumnOptionsLoop(props, joinColumn) ==
    IF Len(props) = 0 THEN joinColumn
    ELSE JoinColumnOptionsLoop(Tail(props), JoinColumnOption(props[1], joinColumn))

EmptyJoinColumn == [name |-> None, referencedColumnName |-> None]

extractSingleJoinColumn(obj) == JoinColumnOptionsLoop(obj.props, EmptyJoinColumn)

extractJoinColumn(decorator) ==
    LET args == decorator.args
    IN  IF Len(args) > 0 /\ args[1].kind = "ObjectLiteralExpression"
        THEN JoinColumnOptionsLoop(args[1].props, EmptyJoinColumn)
        ELSE EmptyJoinColumn

extractJoinColumns(initializer) ==
    IF initializer.kind = "ArrayLiteralExpression"
    THEN FilterMap(initializer.elements,
                   LAMBDA e : e.kind = "ObjectLiteralExpression",
                   extractSingleJoinColumn)
    ELSE IF initializer.kind = "ObjectLiteralExpression"
         THEN <<extractSingleJoinColumn(initializer)>>
         ELSE <<>>

\* one iteration of the loop over the literal of @JoinTable
JoinTableOption(prop, joinTable) ==
    IF prop.kind # "PropertyAssignment" \/ ~IsSome(prop.init) THEN joinTable
    ELSE LET initializer == Val(prop.init)
         IN  IF prop.name = "name"
             THEN [joinTable EXCEPT !.name = Some(StripQuotes(initializer.text))]
             ELSE IF prop.name \in {"joinColumn", "joinColumns"}
                  THEN [joinTable EXCEPT !.joinColumns = extractJoinColumns(initializer)]
                  ELSE IF prop.name \in {"inverseJoinColumn", "inverseJoinColumns"}
                       THEN [joinTable EXCEPT !.inverseJoinColumns = extractJoinColumns(initializer)]
                       ELSE joinTable

RECURSIVE JoinTableOptionsLoop(_, _)
JoinTableOptionsLoop(props, joinTable) ==
    IF Len(props) = 0 THEN joinTable
    ELSE JoinTableOptionsLoop(Tail(props), JoinTableOption(props[1], joinTable))

extractJoinTable(decorator, propertyName, targetEntity) ==
    LET args == decorator.args
        joinTable == [name |-> None, joinColumns |-> <<>>, inverseJoinColumns |-> <<>>]
    IN  IF Len(args) > 0 /\ args[1].kind = "ObjectLiteralExpression"
        THEN JoinTableOptionsLoop(args[1].props, joinTable)
        ELSE joinTable

\* the join column a one-to-one or many-to-one gets without @JoinColumn
DefaultJoinColumnOf_propertyName(propertyName) ==
    [name |-> Some(propertyName \o T__id), referencedColumnName |-> Some(T_id)]

DefaultJoinColumnOf(propertyName) ==
    [name |-> Some(toSnakeCase(propertyName) \o T__id), referencedColumnName |-> Some(T_id)]

\* the optional JoinTableMetadata of a relation property
JoinTableOf_always(type, decorators, propertyName, target) ==
    LET joinTableDecorator == FindDecorator(decorators, {"JoinTable"})
    IN  IF type = "many-to-many"
        THEN Some(IF IsSome(joinTableDecorator)
                  THEN extractJoinTable(Val(joinTableDecorator), propertyName, target)
                  ELSE [name |-> None, joinColumns |-> <<>>, inverseJoinColumns |-> <<>>])
        ELSE None

JoinTableOf(type, decorators, propertyName, target) ==
    LET joinTableDecorator == FindDecorator(decorators, {"JoinTable"})
    IN  IF type = "many-to-many" /\ IsSome(joinTableDecorator)
        THEN Some(extractJoinTable(Val(joinTableDecorator), propertyName, target))
        ELSE None

\* an optional RelationMetadata
extractRelationFromProperty(property) ==
    LET decorators == property.decorators
        relationDecorator == FindDecorator(decorators, RelationDecorators)
    IN  IF ~IsSome(relationDecorator) THEN None
        ELSE
          LET propertyName == property.name
              type == RelationTypeOf(Val(relationDecorator).name)
              a == extractRelationArguments(Val(relationDecorator))
              joinColumnDecorator == FindDecorator(decorators, {"JoinColumn"})
          IN  Some([propertyName |-> propertyName,
                    type |-> type,
                    target |-> a.target,
                    inverseSide |-> a.inverseSide,
                    onDelete |-> a.onDelete,
                    onUpdate |-> a.onUpdate,
                    joinColumn |->
                        IF type \in {"one-to-one", "many-to-one"}
                        THEN IF IsSome(joinColumnDecorator)
                             THEN Some(extractJoinColumn(Val(joinColumnDecorator)))
                             ELSE Some(DefaultJoinColumnOf(propertyName))
                        ELSE None,
                    joinTable |-> JoinTableOf(type, decorators, propertyName, a.target)])

extractRelations(classDecl) ==
    FilterMap(FilterMap(classDecl.properties, LAMBDA p : TRUE, extractRelationFromProperty),
              IsSome, Val)

----------------------------------------------------------------------------
(* ColumnExtractor *)

ColumnDecorators == {"Column", "PrimaryColumn", "PrimaryGeneratedColumn", "CreateDateColumn",
                     "UpdateDateColumn", "DeleteDateColumn", "VersionColumn"}

T_varchar == <<"v","a","r","c","h","a","r">>
T_integer == <<"i","n","t","e","g","e","r">>
T_uuid == <<"u","u","i","d">>
T_increment == <<"i","n","c","r","e","m","e","n","t">>
T_rowid == <<"r","o","w","i","d">>
T_timestamp == <<"t","i","m","e","s","t","a","m","p">>
T_boolean == <<"b","o","o","l","e","a","n">>
T_bytea == <<"b","y","t","e","a">>
T_json == <<"j","s","o","n">>
T_string == <<"s","t","r","i","n","g">>
T_number == <<"n","u","m","b","e","r">>
T_Date == <<"D","a","t","e">>
T_Buffer == <<"B","u","f","f","e","r">>
T_null == <<"n","u","l","l">>
T_undefined == <<"u","n","d","e","f","i","n","e","d">>

DigitSeq == <<"0","1","2","3","4","5","6","7","8","9">>
DigitValue(c) == (CHOOSE i \in 1..10 : DigitSeq[i] = c) - 1

\* the value of the leading digits of s, read after the digits already in acc
RECURSIVE DigitsValue(_, _)
DigitsValue(s, acc) ==
    IF Len(s) = 0 \/ s[1] \notin Digits THEN acc
    ELSE DigitsValue(Tail(s), 10 * acc + DigitValue(s[1]))

\* parseInt(value): a number, or NaN when no digit leads the text
NaN == [nan |-> TRUE, n |-> 0]
Num(k) == [nan |-> FALSE, n |-> k]
parseInt(value) ==
    LET signed == Len(value) > 0 /\ value[1] \in {"-", "+"}
        body == IF signed THEN Tail(value) ELSE value
    IN  IF Len(body) = 0 \/ body[1] \notin Digits THEN NaN
        ELSE IF signed /\ value[1] = "-" THEN Num(0 - DigitsValue(body, 0))
        ELSE Num(DigitsValue(body, 0))

IsSpace(c) == c \in {" ", "\t", "\n"}
StartsWithAt(s, i, w) ==
    /\ i + Len(w) - 1 <= Len(s)
    /\ \A k \in 1..Len(w) : s[i + k - 1] = w[k]

RECURSIVE SkipSpaces(_, _)
SkipSpaces(s, i) == IF i <= Len(s) /\ IsSpace(s[i]) THEN SkipSpaces(s, i + 1) ELSE i

\* the length of the match of /\s*\|\s*(null|undefined)/ at position i, 0 if none
NullableMatchLen(s, i) ==
    LET bar == SkipSpaces(s, i)
    IN  IF bar > Len(s) \/ s[bar] # "|" THEN 0
        ELSE LET w == SkipSpaces(s, bar + 1)
             IN  IF StartsWithAt(s, w, T_null) THEN w + Len(T_null) - i
                 ELSE IF StartsWithAt(s, w, T_undefined) THEN w + Len(T_undefined) - i
                 ELSE 0

RECURSIVE StripNullable(_, _)
\* tsType.replace(/\s*\|\s*(null|undefined)/g, '') from position i on
StripNullable(s, i) ==
    IF i > Len(s) THEN <<>>
    ELSE LET k == NullableMatchLen(s, i)
         IN  IF k > 0 THEN StripNullable(s, i + k) ELSE <<s[i]>> \o StripNullable(s, i + 1)

RECURSIVE TrimLeft(_)
TrimLeft(s) == IF Len(s) > 0 /\ IsSpace(s[1]) THEN TrimLeft(Tail(s)) ELSE s
RECURSIVE TrimRight(_)
TrimRight(s) ==
    IF Len(s) > 0 /\ IsSpace(s[Len(s)]) THEN TrimRight(SubSeq(s, 1, Len(s) - 1)) ELSE s
Trim(s) == TrimRight(TrimLeft(s))

EndsWithBrackets(s) == Len(s) >= 2 /\ s[Len(s) - 1] = "[" /\ s[Len(s)] = "]"

\* the type and the metadata (isArray may be set) after inferTypeFromTsType
inferTypeFromTsType(tsType0, metadata) ==
    LET stripped == Trim(StripNullable(tsType0, 1))
        isArr == EndsWithBrackets(stripped)
        tsType == IF isArr THEN SubSeq(stripped, 1, Len(stripped) - 2) ELSE stripped
        type == CASE tsType = T_string  -> T_varchar
                  [] tsType = T_number  -> T_integer
                  [] tsType = T_boolean -> T_boolean
                  [] tsType = T_Date    -> T_timestamp
                  [] tsType = T_Buffer  -> T_bytea
                  [] OTHER -> IF \E i \in 1..Len(tsType) : tsType[i] = "{"
                              THEN T_json ELSE T_varchar
    IN  [(IF isArr THEN [metadata EXCEPT !.isArray = Some(TRUE)] ELSE metadata)
            EXCEPT !.type = type]

EnumsMapHas(map, key) == \E i \in 1..Len(map) : map[i].key = key
\* Map.set: a new key is appended, a known key keeps its place
EnumsMapSet(map, key, value) ==
    IF EnumsMapHas(map, key)
    THEN [i \in 1..Len(map) |-> IF map[i].key = key THEN [key |-> key, value |-> value] ELSE map[i]]
    ELSE Append(map, [key |-> key, value |-> value])

EnumMemberValue(member) ==
    IF IsSome(member.init) THEN StripQuotes(Val(member.init)) ELSE member.name

\* the pair [metadata, enumsMap] after extractEnumMetadata
extractEnumMetadata(enumInitializer, metadata, map) ==
    IF ~IsSome(enumInitializer.symbol) THEN [metadata |-> metadata, enumsMap |-> map]
    ELSE
      LET symbol == Val(enumInitializer.symbol)
          enumName == symbol.name
          named == [metadata EXCEPT !.enumName = Some(toSnakeCase(enumName)),
                                    !.type = toSnakeCase(enumName)]
      IN  IF EnumsMapHas(map, enumName) \/ Len(symbol.declarations) = 0
             \/ symbol.declarations[1].kind # "EnumDeclaration"
          THEN [metadata |-> named, enumsMap |-> map]
          ELSE LET members == symbol.declarations[1].members
                   values == [i \in 1..Len(members) |-> EnumMemberValue(members[i])]
               IN  [metadata |-> [named EXCEPT !.enumValues = Some(values)],
                    enumsMap |-> EnumsMapSet(map, enumName,
                                             [name |-> toSnakeCase(enumName), values |-> values])]

\* one iteration of the loop of extractColumnOptions, on the pair [metadata, enumsMap]
ColumnOption(prop, st) ==
    IF prop.kind # "PropertyAssignment" \/ ~IsSome(prop.init) THEN st
    ELSE
      LET initializer == Val(prop.init)
          value == initializer.text
          metadata == st.metadata
          set(m) == [st EXCEPT !.metadata = m]
      IN  CASE prop.name = "type"      -> set([metadata EXCEPT !.type = StripQuotes(value)])
            [] prop.name = "name"      -> set([metadata EXCEPT !.columnName = StripQuotes(value)])
            [] prop.name = "length"    -> set([metadata EXCEPT !.length = Some(parseInt(value))])
            [] prop.name = "precision" -> set([metadata EXCEPT !.precision = Some(parseInt(value))])
            [] prop.name = "scale"     -> set([metadata EXCEPT !.scale = Some(parseInt(value))])
            [] prop.name = "nullable"  -> set([metadata EXCEPT !.isNullable = (value = T_true)])
            [] prop.name = "unique"    -> set([metadata EXCEPT !.isUnique = (value = T_true)])
            [] prop.name = "default"   -> set([metadata EXCEPT !.default = Some(StripQuotes(value))])
            [] prop.name = "comment"   -> set([metadata EXCEPT !.comment = Some(StripQuotes(value))])
            [] prop.name = "array"     -> set([metadata EXCEPT !.isArray = Some(value = T_true)])
            [] prop.name = "enum"      -> extractEnumMetadata(initializer, metadata, st.enumsMap)
            [] OTHER -> st

RECURSIVE ColumnOptionsLoop(_, _)
ColumnOptionsLoop(props, st) ==
    IF Len(props) = 0 THEN st
    ELSE ColumnOptionsLoop(Tail(props), ColumnOption(props[1], st))

extractColumnOptions(options, metadata, map) ==
    ColumnOptionsLoop(options.props, [metadata |-> metadata, enumsMap |-> map])

\* the loop over the decorator arguments: every options literal is applied
RECURSIVE ColumnArgsLoop(_, _)
ColumnArgsLoop(args, st) ==
    IF Len(args) = 0 THEN st
    ELSE ColumnArgsLoop(Tail(args),
                        IF args[1].kind = "ObjectLiteralExpression"
                        THEN extractColumnOptions(args[1], st.metadata, st.enumsMap)
                        ELSE st)

\* the JSDoc comment of the property, when it has one, is the column's comment
DocumentedColumn(property, metadata) ==
    IF Len(property.jsDocs) > 0 /\ IsSome(property.jsDocs[1])
    THEN [metadata EXCEPT !.comment = Some(Val(property.jsDocs[1]))]
    ELSE metadata

\* the type is inferred from the TypeScript type while it is still the default
InferredColumn(property, metadata) ==
    IF metadata.type = T_varchar /\ ~metadata.isGenerated
    THEN inferTypeFromTsType(property.tsType, metadata)
    ELSE metadata

\* what extractColumnFromProperty returns once the decorator arguments are read
ColumnAfterOptions(property, st) ==
    [column |-> Some(DocumentedColumn(property, InferredColumn(property, st.metadata))),
     enumsMap |-> st.enumsMap]

\* the pair [column, enumsMap]: column is the optional ColumnMetadata of the property
extractColumnFromProperty(property, map) ==
    LET columnDecorator == FindDecorator(property.decorators, ColumnDecorators)
    IN  IF ~IsSome(columnDecorator) THEN [column |-> None, enumsMap |-> map]
        ELSE
          LET decoratorName == Val(columnDecorator).name
              args == Val(columnDecorator).args
              isPrimaryRole == decoratorName \in {"PrimaryColumn", "PrimaryGeneratedColumn"}
              isDateRole == decoratorName \in {"CreateDateColumn", "UpdateDateColumn", "DeleteDateColumn"}
              firstArg == StripQuotes(args[1].text)
              strategy ==
                  IF decoratorName # "PrimaryGeneratedColumn" THEN None
                  ELSE IF Len(args) = 0 THEN Some(T_increment)
                  ELSE IF firstArg \in {T_uuid, T_increment, T_rowid} THEN Some(firstArg)
                  ELSE None
              m0 == [propertyName |-> property.name,
                     columnName |-> toSnakeCase(property.name),
                     type |-> IF isDateRole THEN T_timestamp
                              ELSE IF decoratorName = "VersionColumn" THEN T_integer
                              ELSE IF strategy = Some(T_uuid) THEN T_uuid
                              ELSE IF IsSome(strategy) THEN T_integer
                              ELSE T_varchar,
                     isPrimary |-> isPrimaryRole,
                     isGenerated |-> (decoratorName = "PrimaryGeneratedColumn"),
                     generationStrategy |-> strategy,
                     isNullable |-> ~(isPrimaryRole \/ isDateRole \/ decoratorName = "VersionColumn"),
                     isUnique |-> FALSE,
                     length |-> None, precision |-> None, scale |-> None,
                     default |-> None, enumName |-> None, enumValues |-> None,
                     isArray |-> None,
                     isCreateDate |-> (decoratorName = "CreateDateColumn"),
                     isUpdateDate |-> (decoratorName = "UpdateDateColumn"),
                     isDeleteDate |-> (decoratorName = "DeleteDateColumn"),
                     isVersion |-> (decoratorName = "VersionColumn"),
                     comment |-> None]
          IN  ColumnAfterOptions(property,
                                 ColumnArgsLoop(args, [metadata |-> m0, enumsMap |-> map]))

\* the pair [columns, enumsMap] after extractColumns
RECURSIVE extractColumns(_, _)

\* columns.push(columnMetadata), when there is one
PushColumn(r, rest) == [columns |-> r.column \o rest.columns, enumsMap |-> rest.enumsMap]

\* the rest of the loop, run on the enumsMap the first property left behind
ColumnsFrom(r, properties) == PushColumn(r, extractColumns(properties, r.enumsMap))

extractColumns(properties, map) ==
    IF Len(properties) = 0 THEN [columns |-> <<>>, enumsMap |-> map]
    ELSE ColumnsFrom(extractColumnFromProperty(properties[1], map), Tail(properties))

----------------------------------------------------------------------------
(* MetadataExtractor *)

\* classDecl.getDecorator(name)
GetDecorator(classDecl, name) == FindDecorator(classDecl.decorators, {name})

\* one iteration of the loop over the options literal of @Entity
EntityOption(prop, acc) ==
    IF prop.kind # "PropertyAssignment" THEN acc
    ELSE IF prop.name = "name" /\ IsSome(prop.init)
         THEN [acc EXCEPT !.tableName = StripQuotes(Val(prop.init).text)]
         ELSE IF prop.name = "schema" /\ IsSome(prop.init)
              THEN [acc EXCEPT !.schema = Some(StripQuotes(Val(prop.init).text))]
              ELSE acc

RECURSIVE EntityOptionsLoop(_, _)
EntityOptionsLoop(props, acc) ==
    IF Len(props) = 0 THEN acc
    ELSE EntityOptionsLoop(Tail(props), EntityOption(props[1], acc))

\* classDecl.getName() || 'Unknown'
ClassNameOf(classDecl) == OrElse(classDecl.name, T_Unknown)

\* the syntax kinds are those the comments next to the numeric constants name
extractEntityDecorator(classDecl) ==
    LET className == ClassNameOf(classDecl)
        entityDecorator == GetDecorator(classDecl, "Entity")
        acc0 == [tableName |-> toSnakeCase(className), schema |-> None]
        acc ==
            IF IsSome(entityDecorator) /\ Len(Val(entityDecorator).args) > 0
            THEN LET firstArg == Val(entityDecorator).args[1]
                 IN  IF firstArg.kind = "StringLiteral"
                     THEN [acc0 EXCEPT !.tableName = StripQuotes(firstArg.text)]
                     ELSE IF firstArg.kind = "ObjectLiteralExpression"
                          THEN EntityOptionsLoop(firstArg.props, acc0)
                          ELSE acc0
            ELSE acc0
        note == IF Len(classDecl.jsDocs) > 0 /\ IsSome(classDecl.jsDocs[1])
                THEN classDecl.jsDocs[1] ELSE None
    IN  [tableName |-> acc.tableName, schema |-> acc.schema, note |-> note]

T_STI == <<"S","T","I">>

\* one iteration of the loop over the options literal of @TableInheritance
InheritanceOption(prop, acc) ==
    IF prop.kind # "PropertyAssignment" THEN acc
    ELSE IF prop.name = "pattern" /\ IsSome(prop.init)
         THEN [acc EXCEPT !.pattern = StripQuotes(Val(prop.init).text)]
         ELSE IF prop.name = "column" /\ IsSome(prop.init)
              THEN [acc EXCEPT !.discriminatorColumn = Some(StripQuotes(Val(prop.init).text))]
              ELSE acc

RECURSIVE InheritanceOptionsLoop(_, _)
InheritanceOptionsLoop(props, acc) ==
    IF Len(props) = 0 THEN acc
    ELSE InheritanceOptionsLoop(Tail(props), InheritanceOption(props[1], acc))

\* an optional InheritanceMetadata
extractInheritance(classDecl) ==
    LET inheritanceDecorator == GetDecorator(classDecl, "TableInheritance")
        childDecorator == GetDecorator(classDecl, "ChildEntity")
    IN  IF ~IsSome(inheritanceDecorator) \/ Len(Val(inheritanceDecorator).args) = 0
           \/ Val(inheritanceDecorator).args[1].kind # "ObjectLiteralExpression"
        THEN None
        ELSE Some([InheritanceOptionsLoop(Val(inheritanceDecorator).args[1].props,
                                          [pattern |-> T_STI, discriminatorColumn |-> None,
                                           discriminatorValue |-> None])
                   EXCEPT !.discriminatorValue =
                       IF IsSome(childDecorator) /\ Len(Val(childDecorator).args) > 0
                       THEN Some(StripQuotes(Val(childDecorator).args[1].text))
                       ELSE None])

\* the pair [metadata, enumsMap] after extractEntityMetadata
EntityMetadataOf(className, d, c, relations, k, inheritance) ==
    [metadata |-> [name |-> className,
                   tableName |-> d.tableName,
                   schema |-> d.schema,
                   columns |-> c.columns,
                   relations |-> relations,
                   indexes |-> k.indexes,
                   uniques |-> k.uniques,
                   checks |-> k.checks,
                   note |-> d.note,
                   inheritance |-> inheritance],
     enumsMap |-> c.enumsMap]

extractEntityMetadata(classDecl, map) ==
    EntityMetadataOf(ClassNameOf(classDecl),
                     extractEntityDecorator(classDecl),
                     extractColumns(classDecl.properties, map),
                     extractRelations(classDecl),
                     extractConstraints(classDecl),
                     extractInheritance(classDecl))

\* the first pass of extractMetadata: the pair [entities, enumsMap]
RECURSIVE FirstPass(_, _)

\* the metadata put in front of the list instead of behind it
PushEntity_front(r, rest) == [entities |-> rest.entities \o <<r.metadata>>, enumsMap |-> rest.enumsMap]

\* entityMetadata.push(metadata)
PushEntity(r, rest) == [entities |-> <<r.metadata>> \o rest.entities, enumsMap |-> rest.enumsMap]

\* the rest of the loop, run on the enumsMap the first entity left behind
EntitiesFrom(r, classDecls) == PushEntity(r, FirstPass(classDecls, r.enumsMap))

FirstPass(classDecls, map) ==
    IF Len(classDecls) = 0 THEN [entities |-> <<>>, enumsMap |-> map]
    ELSE EntitiesFrom(extractEntityMetadata(classDecls[1], map), Tail(classDecls))

\* classToTable.get(name): the entry set last wins; undefined when there is none
ClassToTable(entities, name) ==
    LET hits == {i \in 1..Len(entities) : entities[i].name = name}
    IN  IF hits = {} THEN None
        ELSE Some(entities[CHOOSE i \in hits : \A j \in hits : j <= i].tableName)

ResolveRelation_renamed(entities, relation) ==
    LET targetTable == ClassToTable(entities, relation.target)
    IN  [relation EXCEPT !.target = IF Truthy(targetTable) THEN Val(targetTable)
                                    ELSE toSnakeCase(relation.target)]

ResolveRelation(entities, relation) ==
    LET targetTable == ClassToTable(entities, relation.target)
    IN  IF Truthy(targetTable) THEN [relation EXCEPT !.target = Val(targetTable)] ELSE relation

\* resolves against the entities extracted so far only
resolveRelationships_declaredBefore(entities) ==
    [i \in 1..Len(entities) |->
        [entities[i] EXCEPT !.relations =
            [j \in 1..Len(entities[i].relations) |->
                ResolveRelation(SubSeq(entities, 1, i), entities[i].relations[j])]]]

resolveRelationships(entities) ==
    [i \in 1..Len(entities) |->
        [entities[i] EXCEPT !.relations =
            [j \in 1..Len(entities[i].relations) |-> ResolveRelation(entities, entities[i].relations[j])]]]

\* the loop of extractJoinTables has an empty body
extractJoinTables(entities) == <<>>

\* the pair [schema, enumsMap] after extractMetadata on an extractor whose enumsMap is map
\* Array.from(this.enumsMap.values())
EnumsMapValues(map) == [i \in 1..Len(map) |-> map[i].value]

\* the schema extractMetadata returns, with the enumsMap it leaves in the extractor
SchemaOf(entities, map) ==
    [schema |-> [entities |-> entities,
                 enums |-> EnumsMapValues(map),
                 joinTables |-> extractJoinTables(entities)],
     enumsMap |-> map]

\* the second pass: resolveRelationships rewrites the entities of the first pass
SecondPass(firstPass) == SchemaOf(resolveRelationships(firstPass.entities), firstPass.enumsMap)

extractMetadata(classDecls, map) == SecondPass(FirstPass(classDecls, map))

----------------------------------------------------------------------------
(* RelationGenerator *)

T_Ref == <<"R","e","f",":"," ">>
T_delete == <<"d","e","l","e","t","e",":"," ">>
T_update == <<"u","p","d","a","t","e",":"," ">>

\* every key of actionMap maps to its own lower case, as action.toLowerCase() does
formatCascadeAction(action) == toLowerCase(action)

\* an optional text
generateRelationOptions(relation) ==
    LET options ==
            (IF Truthy(relation.onDelete)
             THEN <<T_delete \o formatCascadeAction(Val(relation.onDelete))>> ELSE <<>>)
            \o
            (IF Truthy(relation.onUpdate)
             THEN <<T_update \o formatCascadeAction(Val(relation.onUpdate))>> ELSE <<>>)
    IN  IF Len(options) > 0
        THEN Some(<<"[">> \o Join(options, <<",", " ">>) \o <<"]">>)
        ELSE None

\* relation.joinColumn?.name || default
JoinColumnName(relation) ==
    OrElse(IF IsSome(relation.joinColumn) THEN Val(relation.joinColumn).name ELSE None,
           toSnakeCase(relation.propertyName) \o T__id)

JoinColumnReferenced(relation) ==
    OrElse(IF IsSome(relation.joinColumn) THEN Val(relation.joinColumn).referencedColumnName ELSE None,
           T_id)

\* the line of a many-to-one (arrow ">") or a one-to-one (arrow "-") relation
ReferenceLine(entity, relation, arrow) ==
    LET options == generateRelationOptions(relation)
        parts == << T_Ref \o escapeIdentifier(entity.tableName) \o <<".">>
                        \o escapeIdentifier(JoinColumnName(relation)),
                    arrow,
                    escapeIdentifier(relation.target) \o <<".">>
                        \o escapeIdentifier(JoinColumnReferenced(relation)) >>
                 \o (IF Truthy(options) THEN <<Val(options)>> ELSE <<>>)
    IN  Join(parts, SP)

generateManyToOne(entity, relation) == Some(ReferenceLine(entity, relation, <<">">>))

generateOneToOne(entity, relation) ==
    IF ~IsSome(relation.joinColumn) THEN None
    ELSE Some(ReferenceLine(entity, relation, <<"-">>))

\* columns?.[0]
FirstOf(columns) == IF Len(columns) > 0 THEN Some(columns[1]) ELSE None

generateManyToMany(entity, relation) ==
    IF ~IsSome(relation.joinTable) THEN None
    ELSE
      LET fromTable == entity.tableName
          toTable == relation.target
          joinTable == Val(relation.joinTable)
          joinTableName == OrElse(joinTable.name,
                                  toSnakeCase(fromTable) \o <<"_">> \o toSnakeCase(toTable))
          fromJoinColumn == FirstOf(joinTable.joinColumns)
          toJoinColumn == FirstOf(joinTable.inverseJoinColumns)
          fromColumnName ==
              OrElse(IF IsSome(fromJoinColumn) THEN Val(fromJoinColumn).name ELSE None,
                     toSnakeCase(fromTable) \o T__id)
          fromReferencedColumn ==
              OrElse(IF IsSome(fromJoinColumn) THEN Val(fromJoinColumn).referencedColumnName ELSE None,
                     T_id)
          toColumnName ==
              OrElse(IF IsSome(toJoinColumn) THEN Val(toJoinColumn).name ELSE None,
                     toSnakeCase(toTable) \o T__id)
          toReferencedColumn ==
              OrElse(IF IsSome(toJoinColumn) THEN Val(toJoinColumn).referencedColumnName ELSE None,
                     T_id)
          line(column, table, referenced) ==
              T_Ref \o escapeIdentifier(joinTableName) \o <<".">> \o escapeIdentifier(column)
                    \o <<" ", ">", " ">>
                    \o escapeIdentifier(table) \o <<".">> \o escapeIdentifier(referenced)
      IN  Some(Join(<< line(fromColumnName, fromTable, fromReferencedColumn),
                       line(toColumnName, toTable, toReferencedColumn) >>, NL))

\* emits the inverse side as well
generateRelation_bothSides(entity, relation) ==
    CASE relation.type \in {"many-to-one", "one-to-many"} -> generateManyToOne(entity, relation)
      [] relation.type = "one-to-one"   -> generateOneToOne(entity, relation)
      [] relation.type = "many-to-many" -> generateManyToMany(entity, relation)
      [] OTHER -> None

\* an optional text: one relation's contribution to the reference section
generateRelation(entity, relation) ==
    CASE relation.type = "many-to-one"  -> generateManyToOne(entity, relation)
      [] relation.type = "one-to-many"  -> None
      [] relation.type = "one-to-one"   -> generateOneToOne(entity, relation)
      [] relation.type = "many-to-many" -> generateManyToMany(entity, relation)
      [] OTHER -> None

\* the refs array of generateRelations: the non-empty results, in entity then relation order
RECURSIVE RefsOf(_)
RefsOf(entities) ==
    IF Len(entities) = 0 THEN <<>>
    ELSE FilterMap(FilterMap(entities[1].relations, LAMBDA r : TRUE,
                             LAMBDA r : generateRelation(entities[1], r)),
                   Truthy, Val)
         \o RefsOf(Tail(entities))

generateRelations(entities) == Join(RefsOf(entities), NL)

----------------------------------------------------------------------------
(* TypeMapper *)

\* the entries of typeMap as the object literal lists them: <<key, value>>
TypeMapEntries ==
    << <<<<"v","a","r","c","h","a","r">>, <<"v","a","r","c","h","a","r">>>>,
       <<<<"c","h","a","r","a","c","t","e","r"," ","v","a","r","y","i","n","g">>, <<"v","a","r","c","h","a","r">>>>,
       <<<<"c","h","a","r">>, <<"c","h","a","r">>>>,
       <<<<"c","h","a","r","a","c","t","e","r">>, <<"c","h","a","r">>>>,
       <<<<"t","e","x","t">>, <<"t","e","x","t">>>>,
       <<<<"s","t","r","i","n","g">>, <<"v","a","r","c","h","a","r">>>>,
       <<<<"i","n","t">>, <<"i","n","t","e","g","e","r">>>>,
       <<<<"i","n","t","e","g","e","r">>, <<"i","n","t","e","g","e","r">>>>,
       <<<<"i","n","t","2">>, <<"s","m","a","l","l","i","n","t">>>>,
       <<<<"i","n","t","4">>, <<"i","n","t","e","g","e","r">>>>,
       <<<<"i","n","t","8">>, <<"b","i","g","i","n","t">>>>,
       <<<<"s","m","a","l","l","i","n","t">>, <<"s","m","a","l","l","i","n","t">>>>,
       <<<<"b","i","g","i","n","t">>, <<"b","i","g","i","n","t">>>>,
       <<<<"d","e","c","i","m","a","l">>, <<"d","e","c","i","m","a","l">>>>,
       <<<<"n","u","m","e","r","i","c">>, <<"n","u","m","e","r","i","c">>>>,
       <<<<"r","e","a","l">>, <<"r","e","a","l">>>>,
       <<<<"f","l","o","a","t">>, <<"f","l","o","a","t">>>>,
       <<<<"f","l","o","a","t","4">>, <<"r","e","a","l">>>>,
       <<<<"f","l","o","a","t","8">>, <<"d","o","u","b","l","e"," ","p","r","e","c","i","s","i","o","n">>>>,
       <<<<"d","o","u","b","l","e">>, <<"d","o","u","b","l","e"," ","p","r","e","c","i","s","i","o","n">>>>,
       <<<<"d","o","u","b","l","e"," ","p","r","e","c","i","s","i","o","n">>, <<"d","o","u","b","l","e"," ","p","r","e","c","i","s","i","o","n">>>>,
       <<<<"m","o","n","e","y">>, <<"m","o","n","e","y">>>>,
       <<<<"n","u","m","b","e","r">>, <<"n","u","m","e","r","i","c">>>>,
       <<<<"b","o","o","l","e","a","n">>, <<"b","o","o","l","e","a","n">>>>,
       <<<<"b","o","o","l">>, <<"b","o","o","l","e","a","n">>>>,
       <<<<"d","a","t","e">>, <<"d","a","t","e">>>>,
       <<<<"t","i","m","e">>, <<"t","i","m","e">>>>,
       <<<<"t","i","m","e"," ","w","i","t","h","o","u","t"," ","t","i","m","e"," ","z","o","n","e">>, <<"t","i","m","e">>>>,
       <<<<"t","i","m","e"," ","w","i","t","h"," ","t","i","m","e"," ","z","o","n","e">>, <<"t","i","m","e","t","z">>>>,
       <<<<"t","i","m","e","s","t","a","m","p">>, <<"t","i","m","e","s","t","a","m","p">>>>,
       <<<<"t","i","m","e","s","t","a","m","p"," ","w","i","t","h","o","u","t"," ","t","i","m","e"," ","z","o","n","e">>, <<"t","i","m","e","s","t","a","m","p">>>>,
       <<<<"t","i","m","e","s","t","a","m","p"," ","w","i","t","h"," ","t","i","m","e"," ","z","o","n","e">>, <<"t","i","m","e","s","t","a","m","p","t","z">>>>,
       <<<<"t","i","m","e","s","t","a","m","p","t","z">>, <<"t","i","m","e","s","t","a","m","p","t","z">>>>,
       <<<<"d","a","t","e","t","i","m","e">>, <<"t","i","m","e","s","t","a","m","p">>>>,
       <<<<"i","n","t","e","r","v","a","l">>, <<"i","n","t","e","r","v","a","l">>>>,
       <<<<"u","u","i","d">>, <<"u","u","i","d">>>>,
       <<<<"b","y","t","e","a">>, <<"b","y","t","e","a">>>>,
       <<<<"b","l","o","b">>, <<"b","y","t","e","a">>>>,
       <<<<"b","i","n","a","r","y">>, <<"b","y","t","e","a">>>>,
       <<<<"v","a","r","b","i","n","a","r","y">>, <<"b","y","t","e","a">>>>,
       <<<<"j","s","o","n">>, <<"j","s","o","n">>>>,
       <<<<"j","s","o","n","b">>, <<"j","s","o","n","b">>>>,
       <<<<"x","m","l">>, <<"x","m","l">>>>,
       <<<<"i","n","e","t">>, <<"i","n","e","t">>>>,
       <<<<"c","i","d","r">>, <<"c","i","d","r">>>>,
       <<<<"m","a","c","a","d","d","r">>, <<"m","a","c","a","d","d","r">>>>,
       <<<<"p","o","i","n","t">>, <<"p","o","i","n","t">>>>,
       <<<<"l","i","n","e">>, <<"l","i","n","e">>>>,
       <<<<"l","s","e","g">>, <<"l","s","e","g">>>>,
       <<<<"b","o","x">>, <<"b","o","x">>>>,
       <<<<"p","a","t","h">>, <<"p","a","t","h">>>>,
       <<<<"p","o","l","y","g","o","n">>, <<"p","o","l","y","g","o","n">>>>,
       <<<<"c","i","r","c","l","e">>, <<"c","i","r","c","l","e">>>>,
       <<<<"i","n","t","4","r","a","n","g","e">>, <<"i","n","t","4","r","a","n","g","e">>>>,
       <<<<"i","n","t","8","r","a","n","g","e">>, <<"i","n","t","8","r","a","n","g","e">>>>,
       <<<<"n","u","m","r","a","n","g","e">>, <<"n","u","m","r","a","n","g","e">>>>,
       <<<<"t","s","r","a","n","g","e">>, <<"t","s","r","a","n","g","e">>>>,
       <<<<"t","s","t","z","r","a","n","g","e">>, <<"t","s","t","z","r","a","n","g","e">>>>,
       <<<<"d","a","t","e","r","a","n","g","e">>, <<"d","a","t","e","r","a","n","g","e">>>>,
       <<<<"t","s","v","e","c","t","o","r">>, <<"t","s","v","e","c","t","o","r">>>>,
       <<<<"t","s","q","u","e","r","y">>, <<"t","s","q","u","e","r","y">>>>,
       <<<<"b","i","t">>, <<"b","i","t">>>>,
       <<<<"v","a","r","b","i","t">>, <<"v","a","r","b","i","t">>>>,
       <<<<"b","i","t"," ","v","a","r","y","i","n","g">>, <<"v","a","r","b","i","t">>>>,
       <<<<"t","i","n","y","i","n","t">>, <<"t","i","n","y","i","n","t">>>>,
       <<<<"m","e","d","i","u","m","i","n","t">>, <<"m","e","d","i","u","m","i","n","t">>>>,
       <<<<"y","e","a","r">>, <<"y","e","a","r">>>>,
       <<<<"t","i","n","y","t","e","x","t">>, <<"t","i","n","y","t","e","x","t">>>>,
       <<<<"m","e","d","i","u","m","t","e","x","t">>, <<"m","e","d","i","u","m","t","e","x","t">>>>,
       <<<<"l","o","n","g","t","e","x","t">>, <<"l","o","n","g","t","e","x","t">>>>,
       <<<<"e","n","u","m">>, <<"e","n","u","m">>>>,
       <<<<"s","e","t">>, <<"s","e","t">>>>,
       <<<<"n","v","a","r","c","h","a","r">>, <<"n","v","a","r","c","h","a","r">>>>,
       <<<<"n","c","h","a","r">>, <<"n","c","h","a","r">>>>,
       <<<<"n","t","e","x","t">>, <<"n","t","e","x","t">>>>,
       <<<<"u","n","i","q","u","e","i","d","e","n","t","i","f","i","e","r">>, <<"u","u","i","d">>>>,
       <<<<"n","u","m","b","e","r">>, <<"n","u","m","b","e","r">>>>,
       <<<<"v","a","r","c","h","a","r","2">>, <<"v","a","r","c","h","a","r","2">>>>,
       <<<<"n","v","a","r","c","h","a","r","2">>, <<"n","v","a","r","c","h","a","r","2">>>>,
       <<<<"c","l","o","b">>, <<"c","l","o","b">>>>,
       <<<<"n","c","l","o","b">>, <<"n","c","l","o","b">>>>,
       <<<<"r","a","w">>, <<"r","a","w">>>>,
       <<<<"l","o","n","g">>, <<"l","o","n","g">>>> >>

\* typeMap[type]: of two entries with one key the later one counts
TypeMapGet(type) ==
    LET hits == { i \in 1..Len(TypeMapEntries) : TypeMapEntries[i][1] = type }
    IN  IF hits = {} THEN None
        ELSE Some(TypeMapEntries[CHOOSE i \in hits : \A j \in hits : j <= i][2])

\* typeMap[type] || type, on the lower-cased token
BaseTypeOf(type) == OrElse(TypeMapGet(type), type)

getBaseType(typeormType) == BaseTypeOf(toLowerCase(typeormType))

LengthTypes ==
    { <<"v","a","r","c","h","a","r">>,
      <<"c","h","a","r","a","c","t","e","r"," ","v","a","r","y","i","n","g">>,
      <<"c","h","a","r">>,
      <<"c","h","a","r","a","c","t","e","r">>,
      <<"n","v","a","r","c","h","a","r">>,
      <<"n","c","h","a","r">>,
      <<"v","a","r","c","h","a","r","2">>,
      <<"n","v","a","r","c","h","a","r","2">>,
      <<"b","i","t">>,
      <<"v","a","r","b","i","t">>,
      <<"b","i","n","a","r","y">>,
      <<"v","a","r","b","i","n","a","r","y">> }

supportsLength(type) == toLowerCase(type) \in LengthTypes

\* the decimal digits of a natural number
RECURSIVE NatText(_)
NatText(n) == IF n < 10 THEN <<DigitSeq[n + 1]>> ELSE NatText(n \div 10) \o <<DigitSeq[(n % 10) + 1]>>

\* the template text of a number as parseInt returns it
NumText(num) ==
    IF num.nan THEN <<"N","a","N">>
    ELSE IF num.n < 0 THEN <<"-">> \o NatText(0 - num.n)
    ELSE NatText(num.n)

\* the truthiness of an optional number: undefined, NaN and 0 are falsy
NumTruthy(o) == IsSome(o) /\ ~Val(o).nan /\ Val(o).n # 0

\* the length or precision suffix of mapType
WithSize(column, dbmlType) ==
    IF NumTruthy(column.length) /\ supportsLength(column.type)
    THEN dbmlType \o <<"(">> \o NumText(Val(column.length)) \o <<")">>
    ELSE IF IsSome(column.precision)
    THEN IF IsSome(column.scale)
         THEN dbmlType \o <<"(">> \o NumText(Val(column.precision)) \o <<",">>
                       \o NumText(Val(column.scale)) \o <<")">>
         ELSE dbmlType \o <<"(">> \o NumText(Val(column.precision)) \o <<")">>
    ELSE dbmlType

\* the array notation of mapType
WithArray(column, dbmlType) ==
    IF column.isArray = Some(TRUE) THEN dbmlType \o <<"[", "]">> ELSE dbmlType

mapType(column) ==
    IF Truthy(column.enumName) THEN Val(column.enumName)
    ELSE WithSize(column, WithArray(column, getBaseType(column.type)))

----------------------------------------------------------------------------
(* TableGenerator *)

\* the grave accent (U+0060) that DBML puts around expressions; the character
\* cannot be written inside a string of this language
GRAVE == "U+0060"

\* text.includes(sub)
Includes(text, sub) ==
    \E i \in 1..(Len(text) - Len(sub) + 1) : SubSeq(text, i, i + Len(sub) - 1) = sub

\* note.replace(/'/g, "\\'")
RECURSIVE escapeNote(_)
escapeNote(note) ==
    IF Len(note) = 0 THEN <<>>
    ELSE (IF note[1] = "'" THEN <<"\\", "'">> ELSE <<note[1]>>) \o escapeNote(Tail(note))

\* escapeIdentifier quoting only the identifiers that hold a space
TableGenerator_escapeIdentifier_spaces(identifier) ==
    IF \E i \in 1..Len(identifier) : identifier[i] = " "
    THEN <<"\"">> \o identifier \o <<"\"">> ELSE identifier

TableGenerator_escapeIdentifier(identifier) ==
    IF NeedsQuote(identifier) THEN <<"\"">> \o identifier \o <<"\"">> ELSE identifier

formatDefaultValue(defaultValue, column) ==
    IF Includes(defaultValue, <<"(">>) \/ Includes(toLowerCase(defaultValue), <<"n","o","w">>)
    THEN <<GRAVE>> \o defaultValue \o <<GRAVE>>
    ELSE IF column.type = <<"v","a","r","c","h","a","r">> \/ column.type = <<"t","e","x","t">> \/ Truthy(column.enumName)
    THEN <<"'">> \o defaultValue \o <<"'">>
    ELSE IF column.type = <<"b","o","o","l","e","a","n">> THEN toLowerCase(defaultValue)
    ELSE defaultValue

\* '[' + settings.join(', ') + ']', or the empty text when there are no settings
Bracketed(settings) ==
    IF Len(settings) > 0 THEN <<"[">> \o Join(settings, <<","," ">>) \o <<"]">> ELSE <<>>

\* generateColumnSettings with the not-null marker pushed before the unique marker
ColumnSettingsOf_notNullFirst(column, opts) ==
    (IF column.isPrimary
     THEN IF column.isGenerated /\ column.generationStrategy = Some(<<"i","n","c","r","e","m","e","n","t">>)
          THEN <<<<"p","k">>, <<"i","n","c","r","e","m","e","n","t">>>>
          ELSE <<<<"p","k">>>>
     ELSE <<>>)
    \o (IF ~column.isNullable THEN <<<<"n","o","t"," ","n","u","l","l">>>> ELSE <<>>)
    \o (IF column.isUnique /\ ~column.isPrimary THEN <<<<"u","n","i","q","u","e">>>> ELSE <<>>)
    \o (IF IsSome(column.default)
        THEN <<<<"d","e","f","a","u","l","t",":"," ">> \o formatDefaultValue(Val(column.default), column)>>
        ELSE <<>>)
    \o (IF column.isCreateDate \/ column.isUpdateDate THEN <<<<"d","e","f","a","u","l","t",":"," ",GRAVE,"n","o","w","(",")",GRAVE>>>> ELSE <<>>)
    \o (IF opts.includeNotes /\ Truthy(column.comment)
        THEN <<<<"n","o","t","e",":"," ","'">> \o escapeNote(Val(column.comment)) \o <<"'">>>>
        ELSE <<>>)

\* the settings of a column in the order generateColumnSettings pushes them
ColumnSettingsOf(column, opts) ==
    (IF column.isPrimary
     THEN IF column.isGenerated /\ column.generationStrategy = Some(<<"i","n","c","r","e","m","e","n","t">>)
          THEN <<<<"p","k">>, <<"i","n","c","r","e","m","e","n","t">>>>
          ELSE <<<<"p","k">>>>
     ELSE <<>>)
    \o (IF column.isUnique /\ ~column.isPrimary THEN <<<<"u","n","i","q","u","e">>>> ELSE <<>>)
    \o (IF ~column.isNullable THEN <<<<"n","o","t"," ","n","u","l","l">>>> ELSE <<>>)
    \o (IF IsSome(column.default)
        THEN <<<<"d","e","f","a","u","l","t",":"," ">> \o formatDefaultValue(Val(column.default), column)>>
        ELSE <<>>)
    \o (IF column.isCreateDate \/ column.isUpdateDate THEN <<<<"d","e","f","a","u","l","t",":"," ",GRAVE,"n","o","w","(",")",GRAVE>>>> ELSE <<>>)
    \o (IF opts.includeNotes /\ Truthy(column.comment)
        THEN <<<<"n","o","t","e",":"," ","'">> \o escapeNote(Val(column.comment)) \o <<"'">>>>
        ELSE <<>>)

generateColumnSettings(column, opts) == Bracketed(ColumnSettingsOf(column, opts))

\* parts.push(text), when the text is not empty
PushIfAny(text) == IF Len(text) > 0 THEN <<text>> ELSE <<>>

generateColumn(column, opts) ==
    Join(<<TableGenerator_escapeIdentifier(column.columnName), mapType(column)>>
             \o PushIfAny(generateColumnSettings(column, opts)),
         SP)

\* the settings of an index in the order generateIndex pushes them
IndexSettingsOf(index) ==
    (IF index.isUnique THEN <<<<"u","n","i","q","u","e">>>> ELSE <<>>)
    \o (IF Truthy(index.name) THEN <<<<"n","a","m","e",":"," ","'">> \o Val(index.name) \o <<"'">>>> ELSE <<>>)
    \o (IF Truthy(index.type) THEN <<<<"t","y","p","e",":"," ">> \o Val(index.type)>> ELSE <<>>)
    \o (IF Truthy(index.where) THEN <<<<"w","h","e","r","e",":"," ","'">> \o Val(index.where) \o <<"'">>>> ELSE <<>>)

\* the column, or the parenthesised list of columns, of an index
IndexColumnsOf(index) ==
    IF Len(index.columns) = 1 THEN TableGenerator_escapeIdentifier(index.columns[1])
    ELSE <<"(">> \o Join([i \in 1..Len(index.columns) |->
                           TableGenerator_escapeIdentifier(index.columns[i])], <<","," ">>)
              \o <<")">>

generateIndex(index) ==
    Join(<<IndexColumnsOf(index)>> \o PushIfAny(Bracketed(IndexSettingsOf(index))), SP)

\* the attributes of the table declaration
TableOptionsOf(entity, opts) ==
    (IF opts.includeSchemas /\ Truthy(entity.schema)
     THEN <<<<"s","c","h","e","m","a",":"," ","\"">> \o Val(entity.schema) \o <<"\"">>>> ELSE <<>>)
    \o (IF opts.includeNotes /\ Truthy(entity.note)
        THEN <<<<"n","o","t","e",":"," ","'">> \o escapeNote(Val(entity.note)) \o <<"'">>>> ELSE <<>>)

\* ' [' + options.join(', ') + ']', when there are attributes
TableOptionsText(attributes) ==
    IF Len(attributes) > 0 THEN <<" ","[">> \o Join(attributes, <<","," ">>) \o <<"]">> ELSE <<>>

generateTableDeclaration(entity, opts) ==
    <<"T","a","b","l","e"," ">> \o TableGenerator_escapeIdentifier(entity.tableName)
        \o TableOptionsText(TableOptionsOf(entity, opts)) \o <<" ","{">>

\* the lines of the Indexes block of a table
IndexLinesOf(entity, opts) ==
    IF opts.includeIndexes /\ Len(entity.indexes) > 0
    THEN <<<<>>, <<" "," ","I","n","d","e","x","e","s"," ","{">>>>
         \o [i \in 1..Len(entity.indexes) |-> <<" "," "," "," ">> \o generateIndex(entity.indexes[i])]
         \o <<<<" "," ","}">>>>
    ELSE <<>>

generateTable(entity, opts) ==
    Join(<<generateTableDeclaration(entity, opts)>>
             \o [i \in 1..Len(entity.columns) |-> <<" "," ">> \o generateColumn(entity.columns[i], opts)]
             \o IndexLinesOf(entity, opts)
             \o <<<<"}">>>>,
         NL)

----------------------------------------------------------------------------
(* DBMLGenerator *)

T_public == <<"p","u","b","l","i","c">>
T_DatabaseSchema == <<"D","a","t","a","b","a","s","e"," ","S","c","h","e","m","a">>

\* options?.key ?? fallback
Coalesce(options, key, fallback) ==
    IF IsSome(options) /\ IsSome(Val(options)[key]) THEN Val(Val(options)[key]) ELSE fallback

\* the constructor: the options with the defaults filled in
DBMLGenerator_constructor(options) ==
    [includeSchemas |-> Coalesce(options, "includeSchemas", TRUE),
     includeIndexes |-> Coalesce(options, "includeIndexes", TRUE),
     includeNotes   |-> Coalesce(options, "includeNotes", TRUE),
     includeEnums   |-> Coalesce(options, "includeEnums", TRUE),
     tableGrouping  |-> Coalesce(options, "tableGrouping", "schema"),
     projectName    |-> Coalesce(options, "projectName", T_DatabaseSchema)]

DBMLGenerator_escapeIdentifier(identifier) ==
    IF NeedsQuote(identifier) THEN <<"\"">> \o identifier \o <<"\"">> ELSE identifier

generateProjectHeader(opts) ==
    <<"P","r","o","j","e","c","t"," ">> \o DBMLGenerator_escapeIdentifier(opts.projectName)
        \o <<" ","{","\n"," "," ","d","a","t","a","b","a","s","e","_","t","y","p","e",":"," ","'","P","o","s","t","g","r","e","S","Q","L","'","\n"," "," ","N","o","t","e",":"," ","'","G","e","n","e","r","a","t","e","d"," ","f","r","o","m"," ","T","y","p","e","O","R","M"," ","e","n","t","i","t","i","e","s","'","\n","}">>

\* one Enum block
EnumDefinition(enumMeta) ==
    <<"E","n","u","m"," ">> \o DBMLGenerator_escapeIdentifier(enumMeta.name) \o <<" ","{","\n">>
        \o Join([i \in 1..Len(enumMeta.values) |->
                    <<" "," ">> \o DBMLGenerator_escapeIdentifier(enumMeta.values[i])], NL)
        \o <<"\n","}">>

generateEnums(enums) ==
    Join([i \in 1..Len(enums) |-> EnumDefinition(enums[i])], <<"\n","\n">>)

generateTables(entities, opts) ==
    Join([i \in 1..Len(entities) |-> generateTable(entities[i], opts)], <<"\n","\n">>)

\* entity.schema || 'public'
SchemaNameOf(entity) == OrElse(entity.schema, T_public)

\* the keys of schemaGroups, in the order the Map received them
RECURSIVE SchemaGroupKeys(_, _)
SchemaGroupKeys(entities, seen) ==
    IF Len(entities) = 0 THEN seen
    ELSE SchemaGroupKeys(Tail(entities),
                         IF \E k \in 1..Len(seen) : seen[k] = SchemaNameOf(entities[1])
                         THEN seen ELSE Append(seen, SchemaNameOf(entities[1])))

\* schemaGroups.get(name): the tables of the schema in input order
SchemaGroupTables(entities, name) ==
    LET members == SelectSeq(entities, LAMBDA e : SchemaNameOf(e) = name)
    IN  [i \in 1..Len(members) |-> members[i].tableName]

\* one TableGroup block
TableGroupDefinition(name, tables) ==
    <<"T","a","b","l","e","G","r","o","u","p"," ">> \o DBMLGenerator_escapeIdentifier(name) \o <<" ","{","\n">>
        \o Join([i \in 1..Len(tables) |-> <<" "," ">> \o DBMLGenerator_escapeIdentifier(tables[i])], NL)
        \o <<"\n","}">>

\* the blocks of the schemas that have tables
TableGroupsOf(entities, keys) ==
    [k \in 1..Len(keys) |-> TableGroupDefinition(keys[k], SchemaGroupTables(entities, keys[k]))]

generateTableGroups(entities) ==
    Join(TableGroupsOf(entities, SchemaGroupKeys(entities, <<>>)), <<"\n","\n">>)

\* s.trim() is empty
IsBlank(s) == \A i \in 1..Len(s) : IsSpace(s[i])

\* sections.filter((s) => s.trim()).join('\n\n')
JoinSections(sections) == Join(SelectSeq(sections, LAMBDA s : ~IsBlank(s)), <<"\n","\n">>)

\* generate with the reference lines pushed before the tables
SectionsOf_relationsFirst(dbmlSchema, opts) ==
    (IF Len(opts.projectName) > 0 THEN <<generateProjectHeader(opts)>> ELSE <<>>)
    \o (IF opts.includeEnums /\ Len(dbmlSchema.enums) > 0
        THEN <<generateEnums(dbmlSchema.enums)>> ELSE <<>>)
    \o PushIfAny(generateRelations(dbmlSchema.entities))
    \o PushIfAny(generateTables(dbmlSchema.entities, opts))
    \o (IF opts.includeSchemas /\ opts.tableGrouping = "schema"
        THEN PushIfAny(generateTableGroups(dbmlSchema.entities)) ELSE <<>>)

\* the sections generate pushes, in order
SectionsOf(dbmlSchema, opts) ==
    (IF Len(opts.projectName) > 0 THEN <<generateProjectHeader(opts)>> ELSE <<>>)
    \o (IF opts.includeEnums /\ Len(dbmlSchema.enums) > 0
        THEN <<generateEnums(dbmlSchema.enums)>> ELSE <<>>)
    \o PushIfAny(generateTables(dbmlSchema.entities, opts))
    \o PushIfAny(generateRelations(dbmlSchema.entities))
    \o (IF opts.includeSchemas /\ opts.tableGrouping = "schema"
        THEN PushIfAny(generateTableGroups(dbmlSchema.entities)) ELSE <<>>)

generate(dbmlSchema, opts) == JoinSections(SectionsOf(dbmlSchema, opts))

----------------------------------------------------------------------------
(* The inputs: parsed entity classes, drawn from bounded pools *)

\* the largest number of classes in one input batch
MaxBatch == 2

Property(n, ds, ty, docs) == [name |-> n, decorators |-> ds, tsType |-> ty, jsDocs |-> docs]
Class(n, ds, ps, docs) == [name |-> Some(n), decorators |-> ds, properties |-> ps, jsDocs |-> docs]

N_A == <<"A","b">>
N_B == <<"C","d","E">>
N_C == <<"Q">>
N_X == <<"X","y">>          \* a class that is never part of the batch

P_a == <<"b","Y">>
P_b == <<"a","s">>
P_c == <<"k">>

S_cascade == StrLit(<<"C","A","S","C","A","D","E">>)
S_setNull == StrLit(<<"s","e","t"," ","n","u","l","l">>)

EntityDecoratorsA ==
    { <<Decorator("Entity", <<>>)>>,
      <<Decorator("Entity", <<StrLit(<<"t","-","1">>)>>)>> }
EntityDecoratorsB ==
    { <<Decorator("Entity", <<>>)>>,
      <<Decorator("Entity", <<ObjLit(<<Assign("name", StrLit(<<"t","n">>)),
                                       Assign("schema", StrLit(<<"s","1">>))>>)>>)>> }

\* the arguments of a relation decorator that follow the target
InverseArg(prop) == Arrow(<<"x", ".">> \o prop)
RelationTails(inverseProp) ==
    { <<>>,
      <<InverseArg(inverseProp)>>,
      <<InverseArg(inverseProp), ObjLit(<<Assign("onDelete", S_cascade)>>)>>,
      <<InverseArg(inverseProp), ObjLit(<<Assign("onUpdate", S_setNull), Shorthand("eager"),
                                          Assign("onDelete", S_cascade)>>)>> }

JoinColumnDecorators ==
    { <<>>,
      <<Decorator("JoinColumn", <<>>)>>,
      <<Decorator("JoinColumn", <<ObjLit(<<Assign("name", StrLit(<<"f","-","k">>))>>)>>)>>,
      <<Decorator("JoinColumn",
                  <<ObjLit(<<Assign("name", StrLit(<<"f","k">>)),
                             Assign("referencedColumnName", StrLit(<<"u","i","d">>))>>)>>)>> }

JC(n, r) == ObjLit(<<Assign("name", StrLit(n)), Assign("referencedColumnName", StrLit(r))>>)

JoinTableDecorators ==
    { <<>>,
      <<Decorator("JoinTable", <<>>)>>,
      <<Decorator("JoinTable", <<ObjLit(<<Assign("name", StrLit(<<"j","-","t">>))>>)>>)>>,
      <<Decorator("JoinTable",
                  <<ObjLit(<<Assign("name", StrLit(<<"j","t">>)),
                             Assign("joinColumn", JC(<<"l","_","i","d">>, <<"u","i","d">>)),
                             Assign("inverseJoinColumns",
                                    ArrLit(<<JC(<<"r","_","i","d">>, T_id),
                                             JC(<<"z">>, <<"z">>)>>))>>)>>)>> }

\* the relation properties of the class of the rich pool; other is the class it points at
RichRelations(other, inverseProp) ==
    { Property(P_a, <<Decorator(k, <<Arrow(other)>> \o tail)>> \o jc, other, <<>>) :
        k \in {"OneToOne", "ManyToOne"},
        tail \in RelationTails(inverseProp), jc \in JoinColumnDecorators }
    \cup
    { Property(P_a, <<Decorator(k, <<Arrow(N_X)>>)>> \o jc, N_X, <<>>) :
        k \in {"OneToOne", "ManyToOne"}, jc \in JoinColumnDecorators }
    \cup
    { Property(P_a, <<Decorator("OneToMany", <<Arrow(t)>> \o tail)>>, other \o <<"[", "]">>, <<>>) :
        t \in {other, N_X}, tail \in {<<>>, <<InverseArg(inverseProp)>>} }
    \cup
    { Property(P_a, <<Decorator("ManyToMany", <<Arrow(t), InverseArg(inverseProp)>>)>> \o jt,
               other \o <<"[", "]">>, <<>>) :
        t \in {other, N_X}, jt \in JoinTableDecorators }

\* the relation properties of the class of the small pool
PlainRelations(other, inverseProp) ==
    { Property(P_b, <<Decorator("ManyToOne", <<Arrow(other)>>)>>, other, <<>>),
      Property(P_b, <<Decorator("ManyToOne", <<Ident(other, None)>>)>>, other, <<>>),
      Property(P_b, <<Decorator("OneToMany", <<Arrow(other), InverseArg(inverseProp)>>)>>,
               other \o <<"[", "]">>, <<>>),
      Property(P_b, <<Decorator("OneToOne", <<Arrow(other), InverseArg(inverseProp)>>)>>, other, <<>>),
      Property(P_b, <<Decorator("OneToOne", <<Arrow(other), InverseArg(inverseProp)>>),
                      Decorator("JoinColumn", <<>>)>>, other, <<>>),
      Property(P_b, <<Decorator("ManyToMany", <<Arrow(other), InverseArg(inverseProp)>>)>>,
               other \o <<"[", "]">>, <<>>),
      Property(P_b, <<Decorator("ManyToMany", <<Arrow(other), InverseArg(inverseProp)>>),
                      Decorator("JoinTable", <<>>)>>, other \o <<"[", "]">>, <<>>) }

IdColumn == Property(T_id, <<Decorator("PrimaryGeneratedColumn", <<>>)>>, T_number, <<>>)

ClassesA ==
    { Class(N_A, ed, <<IdColumn>> \o ps, <<>>) :
        ed \in EntityDecoratorsA,
        ps \in {<<>>} \cup { <<r>> : r \in RichRelations(N_B, P_b) }
                      \cup { <<r, Property(P_c, <<Decorator("ManyToOne", <<Arrow(N_X)>>)>>, N_X, <<>>)>> :
                                r \in PlainRelations(N_B, P_b) } }

ClassesB ==
    { Class(N_B, ed, <<IdColumn>> \o ps, <<>>) :
        ed \in EntityDecoratorsB,
        ps \in {<<>>} \cup { <<r>> : r \in PlainRelations(N_A, P_a) } }

ClassesC ==
    { Class(N_C, <<Decorator("Entity", <<>>)>>, ps, <<>>) :
        ps \in { <<>>, <<Property(P_c, <<Decorator("ManyToOne", <<Arrow(N_A)>>)>>, N_A, <<>>)>> } }

\* the orders of a set of classes, as sequences without repetition
RECURSIVE Orders(_)
Orders(S) ==
    IF S = {} THEN {<<>>}
    ELSE UNION { { <<c>> \o rest : rest \in Orders(S \ {c}) } : c \in S }

\* batches of related entities: one class of each chosen pool, in every order
RelationBatches ==
    LET picks(n) == IF n = 1 THEN { {a} : a \in ClassesA } \cup { {b} : b \in ClassesB }
                    ELSE IF n = 2 THEN { {a, b} : a \in ClassesA, b \in ClassesB }
                    ELSE IF n = 3 THEN { {a, b, c} : a \in ClassesA, b \in ClassesB, c \in ClassesC }
                    ELSE {}
    IN  UNION { Orders(S) : S \in UNION { picks(n) : n \in 1..MaxBatch } }

\* class-level constraint decorators, one per argument shape
C_a == <<"a">>
C_bC == <<"b","C">>
S_idx == StrLit(<<"i","d","x">>)
Cols1 == ArrLit(<<StrLit(C_a)>>)
Cols2 == ArrLit(<<StrLit(C_bC), StrLit(C_a)>>)
ColsMixed == ArrLit(<<StrLit(C_a), Ident(C_bC, None)>>)
K_true == Keyword(T_true)
K_false == Keyword(T_false)
OptUnique == ObjLit(<<Assign("unique", K_true)>>)
OptFull == ObjLit(<<Assign("unique", K_true), Assign("spatial", K_false),
                    Assign("fulltext", K_true),
                    Assign("where", StrLit(<<"a"," ",">"," ","1">>)),
                    Assign("using", StrLit(<<"G","I","N">>))>>)
OptBadUsing == ObjLit(<<Assign("using", StrLit(<<"r","t","r","e","e">>)), Shorthand("unique")>>)
OptColumns == ObjLit(<<Assign("columns", Cols2), Assign("unique", K_true)>>)

IndexDecorators ==
    { Decorator("Index", args) : args \in
        { <<>>,
          <<Cols1>>, <<Cols2>>, <<Cols2, OptUnique>>, <<Cols1, OptFull>>, <<Cols2, OptBadUsing>>,
          <<S_idx, Cols1>>, <<S_idx, Cols2, OptUnique>>, <<S_idx, Cols2, OptFull>>,
          <<OptColumns>>, <<OptUnique>>,
          <<S_idx>>, <<S_idx, OptUnique>>,
          <<ArrLit(<<>>)>>, <<ArrLit(<<Ident(C_a, None)>>), OptUnique>>, <<ColsMixed>>,
          <<Arrow(C_a)>> } }

UniqueDecorators ==
    { Decorator("Unique", args) : args \in
        { <<>>, <<Cols1>>, <<Cols2>>, <<S_idx, Cols2>>, <<S_idx>>, <<ArrLit(<<>>)>>,
          <<OptColumns>>, <<S_idx, OptColumns>>, <<ColsMixed>> } }

CheckDecorators ==
    { Decorator("Check", args) : args \in
        { <<StrLit(<<"a"," ",">"," ","0">>)>>, <<StrLit(<<"a"," ",">"," ","0">>), S_idx>> } }

IndexedProperties ==
    { Property(C_bC, <<Decorator("Column", <<>>), Decorator("Index", args)>>, T_string, <<>>) :
        args \in { <<>>, <<S_idx>>, <<OptUnique>>, <<S_idx, OptFull>> } }

\* batches of one class that carries one or two constraint decorators
ConstraintBatches ==
    LET ds == IndexDecorators \cup UniqueDecorators \cup CheckDecorators
    IN  { <<Class(N_A, <<Decorator("Entity", <<>>)>> \o cs, <<IdColumn>> \o ps, <<>>)>> :
            cs \in { <<d>> : d \in ds } \cup { <<d, e>> : d \in IndexDecorators, e \in ds },
            ps \in {<<>>} }
        \cup
        { <<Class(N_A, <<Decorator("Entity", <<>>)>> \o cs, <<IdColumn, q>>, <<>>)>> :
            cs \in {<<>>} \cup { <<d>> : d \in IndexDecorators }, q \in IndexedProperties }

\* enum declarations and the symbols the enum option of a column may resolve to
EnumMember(n, i) == [name |-> n, init |-> i]
E_role == [name |-> <<"U","R">>,
           declarations |-> << [kind |-> "EnumDeclaration",
                                members |-> << EnumMember(<<"A">>, Some(<<"'","a","d","'">>)),
                                               EnumMember(<<"B">>, None) >>] >>]
E_state == [name |-> <<"S","t">>,
            declarations |-> << [kind |-> "EnumDeclaration",
                                 members |-> << EnumMember(<<"O","n">>, None) >>] >>]
\* an enum whose name differs from E_state's in letter case only
E_lower == [name |-> <<"s","t">>,
            declarations |-> << [kind |-> "EnumDeclaration",
                                 members |-> << EnumMember(<<"U","p">>, None) >>] >>]
\* an enum of another file that has the name of E_state
E_homonym == [name |-> <<"S","t">>,
              declarations |-> << [kind |-> "EnumDeclaration",
                                   members |-> << EnumMember(<<"O","f","f">>, Some(<<"0">>)) >>] >>]
E_object == [name |-> <<"O","b">>,
             declarations |-> << [kind |-> "VariableDeclaration", members |-> <<>>] >>]
E_undeclared == [name |-> <<"N","d">>, declarations |-> <<>>]

EnumInitializers ==
    { Ident(sy.name, Some(sy)) : sy \in {E_role, E_state, E_lower, E_homonym, E_object, E_undeclared} }
    \cup { Ident(<<"Z">>, None) }

EnumColumn(n, e) ==
    Property(n, <<Decorator("Column", <<ObjLit(<<Assign("type", StrLit(<<"e","n","u","m">>)),
                                                 Assign("enum", e)>>)>>)>>,
             e.text, <<>>)

\* batches of classes with enum-typed columns
EnumBatches ==
    { <<Class(N_A, <<Decorator("Entity", <<>>)>>, <<IdColumn>> \o ps, <<>>)>> :
        ps \in {<<>>} \cup { <<EnumColumn(P_a, e)>> : e \in EnumInitializers }
                      \cup { <<EnumColumn(P_a, e), EnumColumn(P_b, f)>> :
                                e \in EnumInitializers, f \in EnumInitializers } }
    \cup
    { <<Class(N_A, <<Decorator("Entity", <<>>)>>, <<EnumColumn(P_a, e)>>, <<>>),
        Class(N_B, <<Decorator("Entity", <<>>)>>, <<EnumColumn(P_b, f)>>, <<>>)>> :
        e \in EnumInitializers, f \in {Ident(E_role.name, Some(E_role)), Ident(E_state.name, Some(E_state))} }

\* column decorators of every role, with the argument shapes they may carry
T_date == <<"d","a","t","e">>
T_text == <<"t","e","x","t">>
T_identity == <<"i","d","e","n","t","i","t","y">>
OptType(t) == ObjLit(<<Assign("type", StrLit(t))>>)
OptNullable == ObjLit(<<Assign("nullable", K_true)>>)
OptName == ObjLit(<<Assign("name", StrLit(<<"c","-","1">>))>>)

ColumnArguments ==
    { <<>>,
      <<OptType(T_date)>>, <<OptNullable>>, <<OptName>>,
      <<ObjLit(<<Assign("type", StrLit(T_varchar)), Assign("nullable", K_true)>>)>>,
      <<StrLit(T_uuid)>>, <<StrLit(T_increment)>>, <<StrLit(T_rowid)>>, <<StrLit(T_identity)>>,
      <<StrLit(T_uuid), OptType(T_text)>>, <<StrLit(T_increment), OptName>> }

RoleColumns ==
    { Property(P_a, <<Decorator(k, args)>>, ty, <<>>) :
        k \in ColumnDecorators, args \in ColumnArguments, ty \in {T_Date, T_number} }

\* batches of one class with one column of some role
ColumnBatches ==
    { <<Class(N_A, <<Decorator("Entity", <<>>)>>, <<q>>, <<>>)>> : q \in RoleColumns }

\* columns with or without a documentation comment (/** doc */, or one whose
\* getComment() is not a string) and with or without a comment option
OptComment == ObjLit(<<Assign("comment", StrLit(<<"o","p","t">>))>>)
JsDocChoices == {<<>>, <<Some(<<"d","o","c">>)>>, <<None>>}

CommentColumns ==
    { Property(P_a, <<Decorator("Column", args)>>, T_string, docs) :
        args \in {<<>>, <<OptComment>>, <<OptNullable>>}, docs \in JsDocChoices }

CommentBatches ==
    { <<Class(N_A, <<Decorator("Entity", <<>>)>>, <<q>>, <<>>)>> : q \in CommentColumns }

Batches == RelationBatches \cup ConstraintBatches \cup EnumBatches \cup ColumnBatches
               \cup CommentBatches

(* The CLI in watch mode *)

\* the delay of the debounce timer, in milliseconds
DebounceDelay == 500

\* the clock advances in steps of a fifth of the delay
Granule == DebounceDelay \div 5

\* the clock stops after MaxTicks steps, and at most MaxEvents file events arrive
MaxTicks == 14
MaxEvents == 3
MaxTime == MaxTicks * Granule

\* watchMode has registered its handler and no file event has arrived: the
\* timeout variable is null, no timer is pending, the first runGeneration of
\* the command has written the file (contents 0: no file event seen)
Watching ==
    [now |-> 0, timeout |-> None, timers |-> {}, events |-> <<>>, started |-> <<>>,
     runs |-> <<>>, file |-> 0]

\* the command runs without --watch
NotWatching == [Watching EXCEPT !.now = 0 - 1]

(* Batches for the whole run of generateDBML: extraction, then the document *)

\* the largest number of classes in one batch of the whole run
MaxRunBatch == 3

N_Z == <<"Z","z">>
P_m == <<"m">>

StringColumn(n) == Property(n, <<Decorator("Column", <<>>)>>, T_string, <<>>)

\* two many-to-one relations, in this order
W_owner ==
    Class(N_A, <<Decorator("Entity", <<>>)>>,
          <<IdColumn,
            Property(P_a, <<Decorator("ManyToOne", <<Arrow(N_B)>>)>>, N_B, <<>>),
            Property(P_c, <<Decorator("ManyToOne", <<Arrow(N_C)>>)>>, N_C, <<>>)>>,
          <<>>)

\* a named table, a one-to-one relation with its join column and a
\* many-to-many relation with its join table
W_target ==
    Class(N_B, <<Decorator("Entity", <<StrLit(<<"t","-","2">>)>>)>>,
          <<IdColumn,
            Property(P_b, <<Decorator("OneToOne", <<Arrow(N_A)>>), Decorator("JoinColumn", <<>>)>>,
                     N_A, <<>>),
            Property(P_m, <<Decorator("ManyToMany", <<Arrow(N_C)>>), Decorator("JoinTable", <<>>)>>,
                     N_C \o <<"[", "]">>, <<>>)>>,
          <<>>)

\* @Index(['bC', 'a']) on the class, over the properties bC and a
W_indexed ==
    Class(N_C, <<Decorator("Entity", <<>>), Decorator("Index", <<Cols2>>)>>,
          <<StringColumn(C_a), StringColumn(C_bC)>>, <<>>)

\* a class expression without a name, whose decorators carry no or wrong arguments
W_unnamed ==
    [Class(N_Z, <<Decorator("Entity", <<Keyword(<<"4","2">>)>>), Decorator("Index", <<>>),
                  Decorator("Unique", <<Keyword(<<"4","2">>)>>), Decorator("Check", <<>>),
                  Decorator("TableInheritance", <<Keyword(<<"4","2">>)>>)>>,
           <<Property(P_a, <<Decorator("ManyToOne", <<>>)>>, N_B, <<>>),
             Property(P_b, <<Decorator("Column", <<Keyword(<<"4","2">>), Ident(N_Z, None)>>),
                             Decorator("Index", <<Keyword(<<"4","2">>)>>)>>, T_number, <<>>),
             Property(P_c, <<Decorator("JoinColumn", <<Keyword(<<"4","2">>)>>),
                             Decorator("JoinTable", <<>>)>>, T_number, <<>>)>>,
           <<>>)
        EXCEPT !.name = None]

\* a class without decorators and properties
W_bare == Class(N_Z, <<>>, <<>>, <<>>)

RunClasses == { W_owner, W_target, W_indexed, W_unnamed, W_bare }

\* up to MaxRunBatch of the classes, in every order
RunBatches ==
    UNION { Orders(S) : S \in { T \in SUBSET RunClasses : Cardinality(T) \in 1..MaxRunBatch } }

(* DBMLSchema values and GeneratorOptions handed to DBMLGenerator *)

ColumnMetadata(n) ==
    [propertyName |-> n, columnName |-> n, type |-> T_varchar,
     isPrimary |-> FALSE, isGenerated |-> FALSE, generationStrategy |-> None,
     isNullable |-> TRUE, isUnique |-> FALSE,
     length |-> None, precision |-> None, scale |-> None,
     default |-> None, enumName |-> None, enumValues |-> None, isArray |-> None,
     isCreateDate |-> FALSE, isUpdateDate |-> FALSE, isDeleteDate |-> FALSE,
     isVersion |-> FALSE, comment |-> None]

EntityMetadata(n, t, cs) ==
    [name |-> n, tableName |-> t, schema |-> None, columns |-> cs, relations |-> <<>>,
     indexes |-> <<>>, uniques |-> <<>>, checks |-> <<>>, note |-> None, inheritance |-> None]

\* columns with every combination of the properties the column settings read
SettingsColumns ==
    { [ColumnMetadata(C_a) EXCEPT !.type = ty, !.isPrimary = p, !.isGenerated = g[1],
                                  !.generationStrategy = g[2], !.isUnique = u,
                                  !.isNullable = n, !.default = d, !.isCreateDate = cd,
                                  !.comment = c] :
        ty \in {T_varchar, T_integer}, p \in BOOLEAN,
        g \in {<<FALSE, None>>, <<TRUE, Some(T_increment)>>, <<TRUE, Some(T_uuid)>>},
        u \in BOOLEAN, n \in BOOLEAN,
        d \in {None, Some(<<"0">>), Some(<<"i","t","'","s">>), Some(<<"n","o","w","(",")">>)},
        cd \in BOOLEAN,
        c \in {None, Some(<<"a","'","b">>)} }

\* a unique column that is not primary
G_uniqueColumn == [ColumnMetadata(<<"u">>) EXCEPT !.isUnique = TRUE, !.isNullable = FALSE]

SettingsSchemas ==
    { [entities |-> <<EntityMetadata(N_A, <<"a","b">>, <<c, G_uniqueColumn>>)>>,
       enums |-> <<>>, joinTables |-> <<>>] :
        c \in SettingsColumns }

\* entities whose identifiers need quoting, with an index, a note and a relation
G_first ==
    [EntityMetadata(N_A, <<"t","-","1">>, <<[ColumnMetadata(<<"a"," ","b">>) EXCEPT !.comment = Some(<<"c","'","1">>)],
                                   [ColumnMetadata(<<"s","t">>) EXCEPT !.type = <<"s","t">>,
                                                                  !.enumName = Some(<<"s","t">>),
                                                                  !.default = Some(<<"O","n">>)]>>)
        EXCEPT !.schema = Some(<<"s"," ","1">>),
               !.note = Some(<<"n","'","1">>),
               !.indexes = <<[NewIndexMetadata(<<<<"a"," ","b">>, <<"s","t">>>>) EXCEPT !.isUnique = TRUE,
                                                                        !.name = Some(<<"i","d","x">>)],
                             NewIndexMetadata(<<<<"a"," ","b">>>>)>>]
G_second ==
    [EntityMetadata(N_B, <<"t","2">>, <<[ColumnMetadata(T_id) EXCEPT !.type = T_integer,
                                                                !.isPrimary = TRUE,
                                                                !.isNullable = FALSE]>>)
        EXCEPT !.relations = <<[propertyName |-> P_a, type |-> "many-to-one", target |-> <<"t","-","1">>,
                                inverseSide |-> None, onDelete |-> None, onUpdate |-> None,
                                joinColumn |-> Some([name |-> Some(<<"b","-","i","d">>),
                                                     referencedColumnName |-> Some(<<"a"," ","b">>)]),
                                joinTable |-> None]>>]
G_third == [EntityMetadata(N_C, <<"q">>, <<ColumnMetadata(T_id)>>) EXCEPT !.schema = Some(<<"s"," ","1">>)]

G_entities == { <<>>, <<G_first>>, <<G_second>>, <<G_first, G_second>>, <<G_second, G_first, G_third>> }

G_enums ==
    { <<>>,
      <<[name |-> <<"s","t">>, values |-> <<<<"O","n">>, <<"a"," ","b">>>>]>>,
      <<[name |-> <<"u","-","r">>, values |-> <<<<"a","d">>>>], [name |-> <<"s","t">>, values |-> <<<<"O","n">>>>]>> }

SectionSchemas ==
    { [entities |-> es, enums |-> en, joinTables |-> <<>>] : es \in G_entities, en \in G_enums }

\* GeneratorOptions: every key is optional, and so is the object
NoOptions ==
    [includeSchemas |-> None, includeIndexes |-> None, includeNotes |-> None,
     includeEnums |-> None, tableGrouping |-> None, projectName |-> None]

OptionChoices ==
    { None, Some(NoOptions),
      Some([NoOptions EXCEPT !.includeSchemas = Some(FALSE)]),
      Some([NoOptions EXCEPT !.includeIndexes = Some(FALSE)]),
      Some([NoOptions EXCEPT !.includeNotes = Some(FALSE)]),
      Some([NoOptions EXCEPT !.includeEnums = Some(FALSE)]),
      Some([NoOptions EXCEPT !.tableGrouping = Some("none")]),
      Some([NoOptions EXCEPT !.projectName = Some(<<>>)]),
      Some([NoOptions EXCEPT !.projectName = Some(<<"M","y"," ","D","B">>)]),
      Some([NoOptions EXCEPT !.projectName = Some(<<"P","1">>), !.includeEnums = Some(TRUE)]) }

\* the calls of generate: a schema and the options of the generator
GenerateCalls ==
    (SectionSchemas \X OptionChoices)
    \cup (SettingsSchemas \X {None, Some([NoOptions EXCEPT !.includeNotes = Some(FALSE)])})

----------------------------------------------------------------------------
(* The state machine *)

EmptySchema == [entities |-> <<>>, enums |-> <<>>, joinTables |-> <<>>]

\* generateDBML / generateSchema: the parser has delivered the entities to a new extractor
Init ==
    /\ input \in Batches
    /\ enumsMap = <<>>
    /\ schema = EmptySchema
    /\ refs = <<>>
    /\ pc = "parsed"
    /\ genOptions = <<>> /\ dbml = <<>> /\ callArg = <<>> /\ callResult = <<>>
    /\ watch = NotWatching

\* extractor.extractMetadata(entities)
ExtractMetadata ==
    /\ pc = "parsed"
    /\ \E r \in {extractMetadata(input, enumsMap)} :
           /\ schema' = r.schema
           /\ enumsMap' = r.enumsMap
    /\ pc' = "extracted"
    /\ UNCHANGED <<input, refs, genOptions, dbml, callArg, callResult, watch>>

\* relationGenerator.generateRelations(schema.entities)
GenerateRelations ==
    /\ pc = "extracted"
    /\ refs' = generateRelations(schema.entities)
    /\ pc' = "generated"
    /\ UNCHANGED <<input, enumsMap, schema, genOptions, dbml, callArg, callResult, watch>>

Next == ExtractMetadata \/ GenerateRelations

Spec == Init /\ [][Next]_vars

(* generateDBML: the entities are extracted and the document is generated *)

InitRun ==
    /\ input \in RunBatches
    /\ enumsMap = <<>>
    /\ schema = EmptySchema
    /\ refs = <<>>
    /\ pc = "parsed"
    /\ genOptions = <<>> /\ dbml = <<>> /\ callArg = <<>> /\ callResult = <<>>
    /\ watch = NotWatching

\* new DBMLGenerator(config.options).generate(schema)
GenerateDocument ==
    /\ pc = "extracted"
    /\ dbml' = generate(schema, DBMLGenerator_constructor(genOptions))
    /\ pc' = "written"
    /\ UNCHANGED <<input, enumsMap, schema, refs, genOptions, callArg, callResult, watch>>

NextRun == ExtractMetadata \/ GenerateDocument

SpecRun == InitRun /\ [][NextRun]_vars

(* One MetadataExtractor used for several extractMetadata calls *)

InitCalls ==
    /\ input = <<>>
    /\ enumsMap = <<>>
    /\ schema = EmptySchema
    /\ refs = <<>>
    /\ pc = "idle"
    /\ genOptions = <<>> /\ dbml = <<>> /\ callArg = <<>> /\ callResult = <<>>
    /\ watch = NotWatching

\* the caller parses the next batch of entity classes
Parse(batch) ==
    /\ pc \in {"idle", "extracted", "generated"}
    /\ input' = batch
    /\ schema' = EmptySchema
    /\ refs' = <<>>
    /\ pc' = "parsed"
    /\ UNCHANGED <<enumsMap, genOptions, dbml, callArg, callResult, watch>>

\* new MetadataExtractor()
NewExtractor ==
    /\ pc \in {"extracted", "generated"}
    /\ enumsMap # <<>>
    /\ enumsMap' = <<>>
    /\ input' = <<>>
    /\ schema' = EmptySchema
    /\ refs' = <<>>
    /\ pc' = "idle"
    /\ UNCHANGED <<genOptions, dbml, callArg, callResult, watch>>

NextCalls ==
    \/ \E batch \in EnumBatches : Parse(batch)
    \/ ExtractMetadata
    \/ GenerateRelations
    \/ NewExtractor

SpecCalls == InitCalls /\ [][NextCalls]_vars

(* schemaToDBML: a DBMLGenerator built from the options serializes a schema *)

InitGenerate ==
    /\ \E call \in GenerateCalls :
           /\ schema = call[1]
           /\ genOptions = call[2]
    /\ input = <<>> /\ enumsMap = <<>> /\ refs = <<>>
    /\ dbml = <<>> /\ callArg = <<>> /\ callResult = <<>>
    /\ watch = NotWatching
    /\ pc = "built"

\* new DBMLGenerator(options).generate(schema)
Generate ==
    /\ pc = "built"
    /\ dbml' = generate(schema, DBMLGenerator_constructor(genOptions))
    /\ pc' = "serialized"
    /\ UNCHANGED <<input, enumsMap, schema, refs, genOptions, callArg, callResult, watch>>

NextGenerate == Generate

SpecGenerate == InitGenerate /\ [][NextGenerate]_vars

(* toSnakeCase, applied to an identifier and then to its own result *)

\* the longest identifier handed to toSnakeCase
MaxNameLen == 3

NameChars == {"a", "B", "_", "1"}

\* identifiers of up to MaxNameLen characters; none starts with a digit
RECURSIVE NamesOfLen(_)
NamesOfLen(n) ==
    IF n = 1 THEN { <<c>> : c \in NameChars \ {"1"} }
    ELSE { Append(s, c) : s \in NamesOfLen(n - 1), c \in NameChars }

Names == UNION { NamesOfLen(n) : n \in 1..MaxNameLen }

InitNames ==
    /\ callArg \in Names
    /\ callResult = <<>>
    /\ pc = "named"
    /\ input = <<>> /\ enumsMap = <<>> /\ schema = EmptySchema /\ refs = <<>>
    /\ genOptions = <<>> /\ dbml = <<>>
    /\ watch = NotWatching

\* toSnakeCase(str)
SnakeCase ==
    /\ pc = "named"
    /\ callResult' = <<toSnakeCase(callArg)>>
    /\ pc' = "converted"
    /\ UNCHANGED <<input, enumsMap, schema, refs, genOptions, dbml, callArg, watch>>

\* toSnakeCase of the result of the first call; both results are kept
SnakeCaseAgain ==
    /\ pc = "converted"
    /\ callResult' = Append(callResult, toSnakeCase(callResult[1]))
    /\ pc' = "reconverted"
    /\ UNCHANGED <<input, enumsMap, schema, refs, genOptions, dbml, callArg, watch>>

NextNames == SnakeCase \/ SnakeCaseAgain

SpecNames == InitNames /\ [][NextNames]_vars

(* TypeMapper.mapType, applied to a column of a given type token *)

\* the first letter of a token in upper case
Capitalized(token) == [i \in 1..Len(token) |-> IF i = 1 THEN UpperOf(token[i]) ELSE token[i]]

\* the keys of the type table in three letter cases, and tokens the table does not have
TypeTokens ==
    { TypeMapEntries[i][1] : i \in 1..Len(TypeMapEntries) }
        \cup { toUpperCase(TypeMapEntries[i][1]) : i \in 1..Len(TypeMapEntries) }
        \cup { Capitalized(TypeMapEntries[i][1]) : i \in 1..Len(TypeMapEntries) }
        \cup { <<"g","e","o","m","e","t","r","y">>, <<"G","e","o","m","e","t","r","y">>, <<"l","t","r","e","e">>, <<"L","T","R","E","E">>, <<"m","y","_","t","y","p","e">>, <<"M","y","T","y","p","e">> }

InitTypes ==
    /\ callArg \in TypeTokens
    /\ callResult = <<>>
    /\ pc = "typed"
    /\ input = <<>> /\ enumsMap = <<>> /\ schema = EmptySchema /\ refs = <<>>
    /\ genOptions = <<>> /\ dbml = <<>>
    /\ watch = NotWatching

\* mapType(column) for a column that is no enum and no array and has no length or precision
MapType ==
    /\ pc = "typed"
    /\ callResult' = mapType([ColumnMetadata(C_a) EXCEPT !.type = callArg])
    /\ pc' = "mapped"
    /\ UNCHANGED <<input, enumsMap, schema, refs, genOptions, dbml, callArg, watch>>

NextTypes == MapType

SpecTypes == InitTypes /\ [][NextTypes]_vars

(* TypeMapper.mapType, applied to columns with sizes, array flag and enum name *)

TypedColumns ==
    { [ColumnMetadata(C_a) EXCEPT !.type = ty, !.length = len, !.precision = pr,
                                  !.scale = sc, !.isArray = arr, !.enumName = en] :
        ty \in { T_varchar, <<"V","A","R","C","H","A","R">>, <<"c","h","a","r">>, <<"b","i","t">>, <<"d","e","c","i","m","a","l">>, <<"n","u","m","e","r","i","c">>,
                 T_integer, T_text },
        len \in { None, Some(Num(255)), Some(Num(0)), Some(NaN) },
        pr \in { None, Some(Num(10)) },
        sc \in { None, Some(Num(2)) },
        arr \in { None, Some(TRUE), Some(FALSE) },
        en \in { None, Some(<<"s","t">>) } }

InitColumnTypes ==
    /\ callArg \in TypedColumns
    /\ callResult = <<>>
    /\ pc = "column"
    /\ input = <<>> /\ enumsMap = <<>> /\ schema = EmptySchema /\ refs = <<>>
    /\ genOptions = <<>> /\ dbml = <<>>
    /\ watch = NotWatching

\* mapType(column)
MapColumnType ==
    /\ pc = "column"
    /\ callResult' = mapType(callArg)
    /\ pc' = "columnMapped"
    /\ UNCHANGED <<input, enumsMap, schema, refs, genOptions, dbml, callArg, watch>>

NextColumnTypes == MapColumnType

SpecColumnTypes == InitColumnTypes /\ [][NextColumnTypes]_vars

(* watchMode: file events, the debounce timer, and the regenerations it starts *)

InitWatch ==
    /\ watch = Watching
    /\ input = <<>> /\ enumsMap = <<>> /\ schema = EmptySchema /\ refs = <<>>
    /\ genOptions = <<>> /\ dbml = <<>> /\ callArg = <<>> /\ callResult = <<>>
    /\ pc = "watching"

WatchUnchanged == UNCHANGED <<input, enumsMap, schema, refs, pc, genOptions, dbml, callArg, callResult>>

\* (the event loop runs the timers that are due before it polls for file events)
FileEvent_noClear ==
    /\ Len(watch.events) < MaxEvents
    /\ watch.now + DebounceDelay <= MaxTime
    /\ \A due \in watch.timers : due > watch.now
    /\ watch' = [watch EXCEPT
                    !.timers = @ \cup {watch.now + DebounceDelay},
                    !.timeout = Some(watch.now + DebounceDelay),
                    !.events = Append(@, watch.now)]
    /\ WatchUnchanged

\* watcher.on('all', ...): the pending timer is cleared and a new one is set
FileEvent ==
    /\ Len(watch.events) < MaxEvents
    /\ watch.now + DebounceDelay <= MaxTime
    /\ \A due \in watch.timers : due > watch.now
    /\ watch' = [watch EXCEPT
                    !.timers = (IF IsSome(watch.timeout) THEN @ \ {Val(watch.timeout)} ELSE @)
                                   \cup {watch.now + DebounceDelay},
                    !.timeout = Some(watch.now + DebounceDelay),
                    !.events = Append(@, watch.now)]
    /\ WatchUnchanged

\* time passes; a timer that is due runs before the clock moves on
Tick ==
    /\ watch.now < MaxTime
    /\ \A due \in watch.timers : due > watch.now
    /\ watch' = [watch EXCEPT !.now = @ + Granule]
    /\ WatchUnchanged

\* the callback of setTimeout: runGeneration(options) is called and runs up
\* to its first await, the search for the input files
TimerFires ==
    /\ \E due \in watch.timers :
           /\ due <= watch.now
           /\ watch' = [watch EXCEPT
                           !.timers = @ \ {due},
                           !.started = Append(@, watch.now),
                           !.runs = Append(@, [snapshot |-> 0, phase |-> "parsing"])]
    /\ WatchUnchanged

\* a run gets its file paths back: it reads the files as they are now (every
\* file event so far is in them), extracts, generates and starts to write the file
ParseDone ==
    /\ \E r \in 1..Len(watch.runs) :
           /\ watch.runs[r].phase = "parsing"
           /\ watch' = [watch EXCEPT !.runs[r] = [snapshot |-> Len(watch.events), phase |-> "writing"]]
    /\ WatchUnchanged

\* the write of a run ends: the file holds what that run generated
WriteDone ==
    /\ \E r \in 1..Len(watch.runs) :
           /\ watch.runs[r].phase = "writing"
           /\ watch' = [watch EXCEPT !.runs[r].phase = "done", !.file = watch.runs[r].snapshot]
    /\ WatchUnchanged

NextWatch == FileEvent \/ Tick \/ TimerFires \/ ParseDone \/ WriteDone

SpecWatch == InitWatch /\ [][NextWatch]_vars

\* the event loop runs what is ready: timers that are due, the clock, and the
\* continuations of the awaits of a run
SpecWatchFair ==
    /\ SpecWatch
    /\ WF_vars(Tick) /\ WF_vars(TimerFires) /\ WF_vars(ParseDone) /\ WF_vars(WriteDone)

----------------------------------------------------------------------------
(* Reading the results *)

\* text.split(sep) for a one-character separator
Split(text, sep) ==
    LET at == { i \in 1..Len(text) : text[i] = sep }
        \* the position of the k-th separator; 0 and Len + 1 bound the text
        pos(k) == IF k = 0 THEN 0
                  ELSE IF k > Cardinality(at) THEN Len(text) + 1
                  ELSE CHOOSE i \in at : Cardinality({ j \in at : j < i }) = k - 1
    IN  [k \in 1..(Cardinality(at) + 1) |-> SubSeq(text, pos(k - 1) + 1, pos(k) - 1)]

\* the lines of a text; the empty text has none
LinesOf(text) == IF Len(text) = 0 THEN <<>> ELSE Split(text, "\n")

RECURSIVE SumSeq(_)
SumSeq(ns) == IF Len(ns) = 0 THEN 0 ELSE ns[1] + SumSeq(Tail(ns))

HasPrefix(text, prefix) ==
    Len(prefix) <= Len(text) /\ SubSeq(text, 1, Len(prefix)) = prefix

Done == pc \in {"extracted", "generated"}

\* the positions (entity, relation) of the extracted schema
RelationPositions ==
    UNION { { <<i, j>> : j \in 1..Len(schema.entities[i].relations) } :
            i \in 1..Len(schema.entities) }

EntityAt(ij) == schema.entities[ij[1]]
RelationAt(ij) == schema.entities[ij[1]].relations[ij[2]]

\* the relation as the first pass left it, before the targets were rewritten
FirstPassRelationAt(ij) == extractRelations(input[ij[1]])[ij[2]]

\* the property the relation at a position was extracted from
RelationPropertyAt(ij) ==
    SelectSeq(input[ij[1]].properties,
              LAMBDA q : IsSome(FindDecorator(q.decorators, RelationDecorators)))[ij[2]]

HasDecorator(property, name) == IsSome(FindDecorator(property.decorators, {name}))

\* the number of reference lines the emission rules give a relation
ExpectedLines(relation) ==
    CASE relation.type = "many-to-one"  -> 1
      [] relation.type = "one-to-many"  -> 0
      [] relation.type = "one-to-one"   -> IF IsSome(relation.joinColumn) THEN 1 ELSE 0
      [] relation.type = "many-to-many" -> IF IsSome(relation.joinTable) THEN 2 ELSE 0

Before(ij, kl) == ij[1] < kl[1] \/ (ij[1] = kl[1] /\ ij[2] < kl[2])

\* the index in the reference section of the first line of the relation at a position
FirstLineOf(ij) ==
    1 + SumSeq([i \in 1..Len(schema.entities) |->
                  SumSeq([j \in 1..Len(schema.entities[i].relations) |->
                            IF Before(<<i, j>>, ij)
                            THEN ExpectedLines(schema.entities[i].relations[j]) ELSE 0])])

BatchNames == { schema.entities[i].name : i \in 1..Len(schema.entities) }

\* the positions (entity, column) of the extracted schema
ColumnPositions ==
    UNION { { <<i, j>> : j \in 1..Len(schema.entities[i].columns) } :
            i \in 1..Len(schema.entities) }

ColumnAt(ij) == schema.entities[ij[1]].columns[ij[2]]

\* the property the column at a position was extracted from
ColumnPropertyAt(ij) ==
    SelectSeq(input[ij[1]].properties,
              LAMBDA q : IsSome(FindDecorator(q.decorators, ColumnDecorators)))[ij[2]]

\* the column decorator of that property, and its arguments
ColumnDecoratorAt(ij) == Val(FindDecorator(ColumnPropertyAt(ij).decorators, ColumnDecorators))

----------------------------------------------------------------------------
(* Claims *)

\* C2: after extractMetadata, whatever the order of the batch, every relation
\* whose first-pass target is the name of an entity of the batch has that
\* entity's physical table name as its target.
C2_TargetsResolved ==
    Done =>
        \A ij \in RelationPositions :
            \A k \in 1..Len(schema.entities) :
                schema.entities[k].name = FirstPassRelationAt(ij).target
                    => RelationAt(ij).target = schema.entities[k].tableName

\* a reference cycle between the two entities of a batch, the first one
\* pointing forward, both resolved to table names that differ from the class names
C2_Witness ==
    /\ pc = "extracted"
    /\ Len(schema.entities) = 2
    /\ \E ij \in RelationPositions, kl \in RelationPositions :
        /\ ij[1] = 1 /\ kl[1] = 2
        /\ FirstPassRelationAt(ij).target = schema.entities[2].name
        /\ FirstPassRelationAt(kl).target = schema.entities[1].name
        /\ RelationAt(ij).target = schema.entities[2].tableName
        /\ RelationAt(kl).target = schema.entities[1].tableName
        /\ schema.entities[2].tableName # schema.entities[2].name
        /\ schema.entities[1].tableName # toSnakeCase(schema.entities[1].name)

\* the enum names the columns of the extracted entities refer to
ReferencedEnumNames ==
    UNION { { Val(schema.entities[i].columns[j].enumName) :
                j \in { c \in 1..Len(schema.entities[i].columns) :
                          IsSome(schema.entities[i].columns[c].enumName) } } :
            i \in 1..Len(schema.entities) }

\* C3: the enums list a call of extractMetadata returns holds only enums that
\* the entities of that call refer to, also when the MetadataExtractor has
\* served earlier calls.
C3_EnumsOfThisCall ==
    Done => \A e \in 1..Len(schema.enums) : schema.enums[e].name \in ReferencedEnumNames

\* a one-to-one between the two classes of the batch: the property of class x
\* carries @JoinColumn, the mirror property of class y does not
IsOneToOneTo(property, targetName) ==
    /\ HasDecorator(property, "OneToOne")
    /\ extractRelationArguments(Val(FindDecorator(property.decorators, {"OneToOne"}))).target
         = targetName

OwningAndMirror(x, y) ==
    /\ Len(input) = 2 /\ {x, y} = {1, 2}
    /\ RelationPositions = {<<1, 1>>, <<2, 1>>}
    /\ IsOneToOneTo(RelationPropertyAt(<<x, 1>>), schema.entities[y].name)
    /\ IsOneToOneTo(RelationPropertyAt(<<y, 1>>), schema.entities[x].name)
    /\ HasDecorator(RelationPropertyAt(<<x, 1>>), "JoinColumn")
    /\ ~HasDecorator(RelationPropertyAt(<<y, 1>>), "JoinColumn")

\* C4: a bidirectional one-to-one of which only one property carries
\* @JoinColumn yields exactly one reference line, the one of the owning side.
C4_OneLinePerOneToOne ==
    pc = "generated" =>
        \A x \in 1..2, y \in 1..2 :
            OwningAndMirror(x, y) =>
                /\ Len(LinesOf(refs)) = 1
                /\ HasPrefix(refs, T_Ref \o escapeIdentifier(schema.entities[x].tableName) \o <<".">>)

\* C5: a one-to-many relation adds no line to the reference section and every
\* many-to-one relation adds exactly one: the section has one line per
\* many-to-one, besides the lines of the one-to-one and many-to-many relations.
C5_OneLinePerManyToOne ==
    pc = "generated" =>
        /\ Len(LinesOf(refs)) =
             SumSeq([i \in 1..Len(schema.entities) |->
                       SumSeq([j \in 1..Len(schema.entities[i].relations) |->
                                 ExpectedLines(schema.entities[i].relations[j])])])
        /\ (\A ij \in RelationPositions : RelationAt(ij).type \in {"one-to-many", "many-to-one"})
              => Len(LinesOf(refs)) =
                   Cardinality({ ij \in RelationPositions : RelationAt(ij).type = "many-to-one" })

\* a one-to-many on one entity, its many-to-one on the other, one line in all
C5_Witness ==
    /\ pc = "generated"
    /\ Len(schema.entities) = 2
    /\ \E ij \in RelationPositions, kl \in RelationPositions :
        /\ RelationPositions = {ij, kl}
        /\ RelationAt(ij).type = "one-to-many" /\ RelationAt(ij).target = EntityAt(kl).tableName
        /\ RelationAt(kl).type = "many-to-one" /\ RelationAt(kl).target = EntityAt(ij).tableName
    /\ Len(LinesOf(refs)) = 1

\* the reference section has, for every relation, the lines the emission rules give it
LineCountAsExpected ==
    Len(LinesOf(refs)) =
        SumSeq([i \in 1..Len(schema.entities) |->
                  SumSeq([j \in 1..Len(schema.entities[i].relations) |->
                            ExpectedLines(schema.entities[i].relations[j])])])

\* a bare or a double-quoted identifier
WellFormedId(s) ==
    \/ Len(s) > 0 /\ \A i \in 1..Len(s) : IsWordChar(s[i])
    \/ /\ Len(s) > 2 /\ s[1] = "\"" /\ s[Len(s)] = "\""
       /\ \A i \in 2..(Len(s) - 1) : s[i] # "\""

\* table.column
IsQualified(s) ==
    \E i \in 2..(Len(s) - 1) :
        /\ s[i] = "."
        /\ WellFormedId(SubSeq(s, 1, i - 1))
        /\ WellFormedId(SubSeq(s, i + 1, Len(s)))

\* Ref: joinTable.column > table.column, for the given join table and table
IsJoinLine(line, joinTableId, table) ==
    /\ HasPrefix(line, T_Ref \o joinTableId \o <<".">>)
    /\ \E i \in (Len(T_Ref) + 1)..(Len(line) - 2) :
        /\ SubSeq(line, i, i + 2) = <<" ", ">", " ">>
        /\ IsQualified(SubSeq(line, Len(T_Ref) + 1, i - 1))
        /\ IsQualified(SubSeq(line, i + 3, Len(line)))
        /\ HasPrefix(SubSeq(line, i + 3, Len(line)), escapeIdentifier(table) \o <<".">>)

\* the identifiers that may start the text after "Ref: "
LeadingIds(line) ==
    { SubSeq(line, Len(T_Ref) + 1, n) : n \in (Len(T_Ref) + 1)..Len(line) }

\* C6: a many-to-many property that carries @JoinTable yields exactly two
\* lines "Ref: joinTable.column > table.column", the first to the owning
\* table and the second to the target table; one without @JoinTable yields none.
C6_TwoLinesPerJoinTable ==
    pc = "generated" =>
        /\ LineCountAsExpected
        /\ \A ij \in RelationPositions :
            RelationAt(ij).type = "many-to-many" =>
                IF HasDecorator(RelationPropertyAt(ij), "JoinTable")
                THEN /\ ExpectedLines(RelationAt(ij)) = 2
                     /\ \E jt \in { id \in LeadingIds(LinesOf(refs)[FirstLineOf(ij)]) : WellFormedId(id) } :
                          /\ IsJoinLine(LinesOf(refs)[FirstLineOf(ij)], jt, EntityAt(ij).tableName)
                          /\ IsJoinLine(LinesOf(refs)[FirstLineOf(ij) + 1], jt, RelationAt(ij).target)
                ELSE ExpectedLines(RelationAt(ij)) = 0
        /\ (\A ij \in RelationPositions : RelationAt(ij).type = "many-to-many")
              => Len(LinesOf(refs)) =
                   2 * Cardinality({ ij \in RelationPositions :
                                        HasDecorator(RelationPropertyAt(ij), "JoinTable") })

\* an owning many-to-many between two entities of the batch, with its two lines
C6_Witness ==
    /\ pc = "generated"
    /\ Len(schema.entities) = 2
    /\ \E ij \in RelationPositions :
        /\ RelationPositions = {ij}
        /\ RelationAt(ij).type = "many-to-many"
        /\ HasDecorator(RelationPropertyAt(ij), "JoinTable")
        /\ RelationAt(ij).target \in { schema.entities[k].tableName : k \in 1..2 } \ {EntityAt(ij).tableName}
    /\ Len(LinesOf(refs)) = 2

\* a many-to-one property without @JoinColumn whose target is in the batch
DefaultManyToOne(ij) ==
    /\ RelationAt(ij).type = "many-to-one"
    /\ ~HasDecorator(RelationPropertyAt(ij), "JoinColumn")
    /\ FirstPassRelationAt(ij).target \in BatchNames

TargetEntityOf(ij) ==
    schema.entities[CHOOSE k \in 1..Len(schema.entities) :
                        schema.entities[k].name = FirstPassRelationAt(ij).target]

\* Ref: <A.tableName>.<snake_case(p)>_id > <B.tableName>.id
DefaultLine(ij) ==
    T_Ref \o escapeIdentifier(EntityAt(ij).tableName) \o <<".">>
          \o escapeIdentifier(toSnakeCase(RelationPropertyAt(ij).name) \o <<"_","i","d">>)
          \o <<" ", ">", " ">>
          \o escapeIdentifier(TargetEntityOf(ij).tableName) \o <<".","i","d">>

DefaultJoinColumn(ij) ==
    /\ IsSome(RelationAt(ij).joinColumn)
    /\ Val(RelationAt(ij).joinColumn).name
         = Some(toSnakeCase(RelationPropertyAt(ij).name) \o <<"_","i","d">>)
    /\ Val(RelationAt(ij).joinColumn).referencedColumnName = Some(<<"i","d">>)

\* C7 as stated: a many-to-one property p without @JoinColumn, from A to B of
\* the same batch, gets join column snake_case(p)_id referring to id, and its
\* line is exactly "Ref: A.snake_case(p)_id > B.id".
C7_ExactlyDefaultLine ==
    pc = "generated" =>
        /\ LineCountAsExpected
        /\ \A ij \in RelationPositions :
            DefaultManyToOne(ij) =>
                /\ DefaultJoinColumn(ij)
                /\ LinesOf(refs)[FirstLineOf(ij)] = DefaultLine(ij)

\* the settings block that follows the line of a relation with cascade actions
CascadeSettings(relation) ==
    LET del == IF Truthy(relation.onDelete)
               THEN << <<"d","e","l","e","t","e",":"," ">> \o toLowerCase(Val(relation.onDelete)) >>
               ELSE <<>>
        upd == IF Truthy(relation.onUpdate)
               THEN << <<"u","p","d","a","t","e",":"," ">> \o toLowerCase(Val(relation.onUpdate)) >>
               ELSE <<>>
    IN  IF Len(del \o upd) = 0 THEN <<>>
        ELSE <<" ", "[">> \o Join(del \o upd, <<",", " ">>) \o <<"]">>

\* C7 as amended: the line is "Ref: A.snake_case(p)_id > B.id", identifiers
\* quoted where they need it, followed by the settings block " [delete: ..,
\* update: ..]" when the relation options give onDelete or onUpdate.
C7_DefaultLineWithSettings ==
    pc = "generated" =>
        /\ LineCountAsExpected
        /\ \A ij \in RelationPositions :
            DefaultManyToOne(ij) =>
                /\ DefaultJoinColumn(ij)
                /\ LinesOf(refs)[FirstLineOf(ij)] = DefaultLine(ij) \o CascadeSettings(RelationAt(ij))

\* a default many-to-one whose property name changes under snake-casing, once
\* without and once with cascade actions
C7_Witness ==
    /\ pc = "generated"
    /\ \E ij \in RelationPositions :
        /\ DefaultManyToOne(ij)
        /\ toSnakeCase(RelationPropertyAt(ij).name) # RelationPropertyAt(ij).name
        /\ Truthy(RelationAt(ij).onDelete)
        /\ LinesOf(refs)[FirstLineOf(ij)] # DefaultLine(ij)
        /\ HasPrefix(LinesOf(refs)[FirstLineOf(ij)], DefaultLine(ij))

\* the relation at a position emits from the join column: a many-to-one, or a
\* one-to-one whose property carries @JoinColumn
OwningSide(ij) ==
    \/ RelationAt(ij).type = "many-to-one"
    \/ RelationAt(ij).type = "one-to-one" /\ HasDecorator(RelationPropertyAt(ij), "JoinColumn")

Unresolved(ij) == FirstPassRelationAt(ij).target \notin BatchNames

\* C8: a relation whose target names no entity of the batch keeps its target
\* string, extraction returns all entities, and the line of an owning
\* relation names the unresolved identifier as the target table.
C8_UnresolvedTargetKept ==
    Done =>
        /\ Len(schema.entities) = Len(input)
        /\ \A ij \in RelationPositions :
            Unresolved(ij) =>
                /\ RelationAt(ij).target = FirstPassRelationAt(ij).target
                /\ (pc = "generated" /\ OwningSide(ij)) =>
                     /\ ExpectedLines(RelationAt(ij)) = 1
                     /\ LineCountAsExpected
                     /\ \E arrow \in {">", "-"} :
                          HasPrefix(LinesOf(refs)[FirstLineOf(ij)],
                                    T_Ref \o escapeIdentifier(EntityAt(ij).tableName) \o <<".">>
                                          \o escapeIdentifier(JoinColumnName(RelationAt(ij)))
                                          \o <<" ", arrow, " ">>
                                          \o escapeIdentifier(FirstPassRelationAt(ij).target)
                                          \o <<".">>)

\* an owning relation to a class outside the batch, emitted after a resolved one
C8_Witness ==
    /\ pc = "generated"
    /\ \E ij \in RelationPositions, kl \in RelationPositions :
        /\ Unresolved(ij) /\ OwningSide(ij)
        /\ ~Unresolved(kl) /\ OwningSide(kl) /\ Before(kl, ij)
        /\ RelationAt(ij).target = N_X

\* an array literal of string literals, and the list it gives
IsColumnList(node) ==
    /\ node.kind = "ArrayLiteralExpression"
    /\ Len(node.elements) > 0
    /\ \A i \in 1..Len(node.elements) : node.elements[i].kind = "StringLiteral"

GivenList(node) == [i \in 1..Len(node.elements) |-> StripQuotes(node.elements[i].text)]

IsOptions(node) == node.kind = "ObjectLiteralExpression"

\* the initializer an options literal gives for a key (the last one, if repeated)
HasOption(options, key) ==
    \E i \in 1..Len(options.props) :
        options.props[i].kind = "PropertyAssignment" /\ options.props[i].name = key

OptionOf(options, key) ==
    LET at == { i \in 1..Len(options.props) :
                  options.props[i].kind = "PropertyAssignment" /\ options.props[i].name = key }
    IN  Val(options.props[CHOOSE i \in at : \A j \in at : j <= i].init)

GivenFlag(options, key) == HasOption(options, key) /\ OptionOf(options, key).text = <<"t","r","u","e">>

\* the three argument shapes of a class-level @Index, with the column list
\* and the options each of them gives
IndexShape(args) ==
    IF Len(args) \in {1, 2} /\ IsColumnList(args[1]) /\ (Len(args) = 2 => IsOptions(args[2]))
    THEN Some([columns |-> GivenList(args[1]), options |-> SubSeq(args, 2, Len(args))])
    ELSE IF Len(args) \in {2, 3} /\ args[1].kind = "StringLiteral" /\ IsColumnList(args[2])
            /\ (Len(args) = 3 => IsOptions(args[3]))
    THEN Some([columns |-> GivenList(args[2]), options |-> SubSeq(args, 3, Len(args))])
    ELSE IF Len(args) = 1 /\ IsOptions(args[1]) /\ HasOption(args[1], "columns")
            /\ IsColumnList(OptionOf(args[1], "columns"))
    THEN Some([columns |-> GivenList(OptionOf(args[1], "columns")), options |-> <<args[1]>>])
    ELSE None

\* an optional flag is set when it is present and true
IsSet(o) == IsSome(o) /\ Val(o)

ClassIndexDecorators(classDecl) == SelectSeq(classDecl.decorators, LAMBDA d : d.name = "Index")

\* C9: a class-level @Index in any of the three shapes (columns first, name
\* then columns, options literal carrying the columns) gives an IndexMetadata
\* with the given column list, in order, and the flags of the options.
C9_IndexShapesConverge ==
    Done =>
        \A i \in 1..Len(input) :
            LET ds == ClassIndexDecorators(input[i])
            IN  (/\ Len(ds) = 1
                 /\ IsSome(IndexShape(ds[1].args))
                 /\ \A q \in 1..Len(input[i].properties) : ~HasDecorator(input[i].properties[q], "Index"))
                => LET given == Val(IndexShape(ds[1].args))
                       flag(key) == Len(given.options) = 1 /\ GivenFlag(given.options[1], key)
                   IN  /\ Len(schema.entities[i].indexes) = 1
                       /\ schema.entities[i].indexes[1].columns = given.columns
                       /\ schema.entities[i].indexes[1].isUnique = flag("unique")
                       /\ IsSet(schema.entities[i].indexes[1].isSpatial) = flag("spatial")
                       /\ IsSet(schema.entities[i].indexes[1].isFulltext) = flag("fulltext")

\* C10: every IndexMetadata and every UniqueMetadata of an extracted entity
\* has a non-empty column list.
C10_ColumnListsNonEmpty ==
    Done =>
        \A i \in 1..Len(schema.entities) :
            /\ \A x \in 1..Len(schema.entities[i].indexes) :
                 Len(schema.entities[i].indexes[x].columns) > 0
            /\ \A u \in 1..Len(schema.entities[i].uniques) :
                 Len(schema.entities[i].uniques[u].columns) > 0

Serialized == pc = "serialized"

\* the place of the section a line of the document opens: 1 project header,
\* 2 enums, 3 tables, 4 reference lines, 5 table groups; 0 for any other line
SectionRank(line) ==
    IF HasPrefix(line, <<"P","r","o","j","e","c","t"," ">>) THEN 1
    ELSE IF HasPrefix(line, <<"E","n","u","m"," ">>) THEN 2
    ELSE IF HasPrefix(line, <<"T","a","b","l","e"," ">>) THEN 3
    ELSE IF HasPrefix(line, <<"R","e","f",":"," ">>) THEN 4
    ELSE IF HasPrefix(line, <<"T","a","b","l","e","G","r","o","u","p"," ">>) THEN 5
    ELSE 0

\* the number of lines of the document that open a section of the given place
SectionLines(lines, rank) == Cardinality({ i \in 1..Len(lines) : SectionRank(lines[i]) = rank })

\* the sections follow each other in the order of their places
SectionsOrdered(lines) ==
    \A i, j \in 1..Len(lines) :
        (i < j /\ SectionRank(lines[i]) > 0 /\ SectionRank(lines[j]) > 0)
            => SectionRank(lines[i]) <= SectionRank(lines[j])

\* no section and no separator of the document is empty: the text neither
\* starts nor ends with a newline, and no blank line follows a blank line
NoEmptySection(text) ==
    /\ Len(text) > 0 => (text[1] # "\n" /\ text[Len(text)] # "\n")
    /\ \A i \in 1..(Len(text) - 2) : ~(text[i] = "\n" /\ text[i + 1] = "\n" /\ text[i + 2] = "\n")

\* the options the caller gave name a project
ProjectNameGiven ==
    IsSome(genOptions) /\ Truthy(Val(genOptions).projectName)

\* enums, tables, reference lines and groups of the document are there exactly
\* when they are enabled and have content
SectionsPresent(lines, opts) ==
    /\ SectionLines(lines, 2) = (IF opts.includeEnums THEN Len(schema.enums) ELSE 0)
    /\ SectionLines(lines, 3) = Len(schema.entities)
    /\ SectionLines(lines, 4) = Len(LinesOf(generateRelations(schema.entities)))
    /\ SectionLines(lines, 5) > 0
           <=> (opts.includeSchemas /\ opts.tableGrouping = "schema" /\ Len(schema.entities) > 0)

\* C15: the document holds project header, enums, tables, reference lines and
\* table groups in that order; enums, tables, reference lines and groups are
\* there exactly when enabled and non-empty, the header exactly when the
\* project name in force (the one given, or 'Database Schema' when none is
\* given) is not empty; and no section or separator is empty.
C15_SectionsInOrder ==
    Serialized =>
        /\ SectionsOrdered(LinesOf(dbml))
        /\ SectionsPresent(LinesOf(dbml), DBMLGenerator_constructor(genOptions))
        /\ SectionLines(LinesOf(dbml), 1)
               = (IF Len(DBMLGenerator_constructor(genOptions).projectName) > 0 THEN 1 ELSE 0)
        /\ NoEmptySection(dbml)

\* C15 as stated: the project header is there only when the options name a project
C15_HeaderOnlyWhenConfigured ==
    Serialized => (SectionLines(LinesOf(dbml), 1) > 0 => ProjectNameGiven)

\* all five sections are in one document, made with options that name no project
C15_Witness ==
    /\ Serialized
    /\ ~ProjectNameGiven
    /\ \A rank \in 1..5 : SectionLines(LinesOf(dbml), rank) > 0

\* the n-th smallest member of a set of numbers
NthOf(set, n) == CHOOSE i \in set : Cardinality({ j \in set : j < i }) = n - 1

\* the line that opens the section or block a line of the document belongs to
OpeningLine(lines, i) ==
    LET before == { j \in 1..i : SectionRank(lines[j]) > 0 }
    IN  IF before = {} THEN <<>> ELSE lines[NthOf(before, Cardinality(before))]

\* the positions of the column lines: the lines of a Table block indented by
\* two spaces, up to the Indexes block
ColumnLines(lines) ==
    { i \in 1..Len(lines) :
        /\ HasPrefix(lines[i], <<" "," ">>)
        /\ ~HasPrefix(lines[i], <<" "," "," ">>)
        /\ ~HasPrefix(lines[i], <<" "," ","}">>)
        /\ ~HasPrefix(lines[i], <<" "," ","I","n","d","e","x","e","s"," ","{">>)
        /\ SectionRank(OpeningLine(lines, i)) = 3
        /\ \A j \in 1..i : (HasPrefix(lines[j], <<" "," ","I","n","d","e","x","e","s"," ","{">>)
                               => \E k \in (j + 1)..i : SectionRank(lines[k]) > 0) }

\* the position of the bracket that opens the settings of a column line, 0 for none
SettingsStart(line) ==
    LET at == { i \in 1..Len(line) : line[i] = "[" /\ i > 1 /\ line[i - 1] = " " }
    IN  IF at = {} \/ line[Len(line)] # "]" THEN 0 ELSE NthOf(at, 1)

\* a setting without the space that follows the comma before it
AfterComma(text) == IF Len(text) > 0 /\ text[1] = " " THEN Tail(text) ELSE text

\* the settings a column line carries, in the order it carries them
SettingsOfLine(line) ==
    IF SettingsStart(line) = 0 THEN <<>>
    ELSE [k \in 1..Len(Split(SubSeq(line, SettingsStart(line) + 1, Len(line) - 1), ",")) |->
             AfterComma(Split(SubSeq(line, SettingsStart(line) + 1, Len(line) - 1), ",")[k])]

\* the place of a setting in the prescribed order, 0 for anything else
SettingRank(setting) ==
    IF setting = <<"p","k">> THEN 1
    ELSE IF setting = <<"i","n","c","r","e","m","e","n","t">> THEN 2
    ELSE IF setting = <<"u","n","i","q","u","e">> THEN 3
    ELSE IF setting = <<"n","o","t"," ","n","u","l","l">> THEN 4
    ELSE IF HasPrefix(setting, <<"d","e","f","a","u","l","t",":"," ">>) THEN 5
    ELSE IF HasPrefix(setting, <<"n","o","t","e",":"," ">>) THEN 6
    ELSE 0

\* the settings are of the six kinds, in order, and only defaults come twice
SettingsOrdered(settings) ==
    /\ \A k \in 1..Len(settings) : SettingRank(settings[k]) > 0
    /\ \A k, l \in 1..Len(settings) :
           k < l => \/ SettingRank(settings[k]) < SettingRank(settings[l])
                    \/ SettingRank(settings[k]) = 5 /\ SettingRank(settings[l]) = 5

HasSetting(settings, rank) == \E k \in 1..Len(settings) : SettingRank(settings[k]) = rank

\* the columns of the schema, entity after entity
RECURSIVE AllColumns(_)
AllColumns(entities) ==
    IF Len(entities) = 0 THEN <<>> ELSE entities[1].columns \o AllColumns(Tail(entities))

\* the increment marker is on the line exactly for a generated primary key of
\* the increment strategy, and the unique marker never for a primary column
MarkersMatch(column, settings) ==
    /\ HasSetting(settings, 2)
           <=> (column.isPrimary /\ column.isGenerated
                   /\ column.generationStrategy = Some(T_increment))
    /\ HasSetting(settings, 3) => ~column.isPrimary

\* C16: every column line carries its settings in the order primary-key marker,
\* increment marker, unique marker, not-null marker, default clause, note
\* clause; the increment marker is there only for generated primary keys of the
\* increment strategy, and the unique marker never on a primary column.
C16_SettingsInOrder ==
    Serialized =>
        /\ Cardinality(ColumnLines(LinesOf(dbml))) = Len(AllColumns(schema.entities))
        /\ \A n \in 1..Len(AllColumns(schema.entities)) :
               /\ SettingsOrdered(SettingsOfLine(LinesOf(dbml)[NthOf(ColumnLines(LinesOf(dbml)), n)]))
               /\ MarkersMatch(AllColumns(schema.entities)[n],
                               SettingsOfLine(LinesOf(dbml)[NthOf(ColumnLines(LinesOf(dbml)), n)]))

\* one column line carries pk, increment, not null, a default and a note, and
\* another one carries unique before not null
C16_Witness ==
    /\ Serialized
    /\ \E i \in ColumnLines(LinesOf(dbml)) :
           \A rank \in {1, 2, 4, 5, 6} : HasSetting(SettingsOfLine(LinesOf(dbml)[i]), rank)
    /\ \E i \in ColumnLines(LinesOf(dbml)) :
           SettingsOfLine(LinesOf(dbml)[i]) = <<<<"u","n","i","q","u","e">>, <<"n","o","t"," ","n","u","l","l">>>>

\* the characters of [A-Za-z0-9_]
WordChars ==
    { UpperSeq[i] : i \in 1..Len(UpperSeq) } \cup { LowerSeq[i] : i \in 1..Len(LowerSeq) }
        \cup { DigitSeq[i] : i \in 1..Len(DigitSeq) } \cup {"_"}

\* an identifier as the document has to show it: in double quotes if and only
\* if one of its characters is outside [A-Za-z0-9_]
Written(identifier) ==
    IF \E i \in 1..Len(identifier) : identifier[i] \notin WordChars
    THEN <<"\"">> \o identifier \o <<"\"">>
    ELSE identifier

\* a line is the given text, or the text followed by a space and more
LineShows(line, text) == line = text \/ HasPrefix(line, text \o <<" ">>)

\* the positions of the lines that open a section of the given place
LinesOfRank(lines, rank) == { i \in 1..Len(lines) : SectionRank(lines[i]) = rank }

\* the positions of the lines indented by two spaces inside a block of the given place
LinesInside(lines, rank) ==
    { i \in 1..Len(lines) :
        /\ HasPrefix(lines[i], <<" "," ">>)
        /\ ~HasPrefix(lines[i], <<" "," "," ">>)
        /\ SectionRank(OpeningLine(lines, i)) = rank }

\* the positions of the index lines: the lines indented by four spaces
IndexLines(lines) == { i \in 1..Len(lines) : HasPrefix(lines[i], <<" "," "," "," ">>) }

\* the columns of an index as the document has to show them
WrittenIndexColumns(index) ==
    IF Len(index.columns) = 1 THEN Written(index.columns[1])
    ELSE <<"(">> \o Join([k \in 1..Len(index.columns) |-> Written(index.columns[k])], <<",", " ">>)
              \o <<")">>

\* the two endpoints of the reference line of a relation with a join column
WrittenEndpoints(entity, relation) ==
    <<"R","e","f",":"," ">> \o Written(entity.tableName) \o <<".">> \o Written(Val(Val(relation.joinColumn).name))
        \o <<" ",">"," ">> \o Written(relation.target) \o <<".">>
        \o Written(Val(Val(relation.joinColumn).referencedColumnName))

\* the relations of the schema, each with its entity
RECURSIVE AllRelations(_)
AllRelations(entities) ==
    IF Len(entities) = 0 THEN <<>>
    ELSE [k \in 1..Len(entities[1].relations) |-> <<entities[1], entities[1].relations[k]>>]
         \o AllRelations(Tail(entities))

\* table and column names, in the Table blocks
TablesShowNames(lines) ==
    /\ \A n \in 1..Len(schema.entities) :
           LineShows(lines[NthOf(LinesOfRank(lines, 3), n)],
                     <<"T","a","b","l","e"," ">> \o Written(schema.entities[n].tableName))
    /\ \A n \in 1..Len(AllColumns(schema.entities)) :
           LineShows(lines[NthOf(ColumnLines(lines), n)],
                     <<" "," ">> \o Written(AllColumns(schema.entities)[n].columnName))

\* index columns, in the Indexes blocks
IndexesShowNames(lines, indexes) ==
    /\ Cardinality(IndexLines(lines)) = Len(indexes)
    /\ \A n \in 1..Len(indexes) :
           LineShows(lines[NthOf(IndexLines(lines), n)], <<" "," "," "," ">> \o WrittenIndexColumns(indexes[n]))

\* enum names and enum values, in the Enum blocks
EnumsShowNames(lines, enums) ==
    /\ \A n \in 1..Len(enums) :
           lines[NthOf(LinesOfRank(lines, 2), n)] = <<"E","n","u","m"," ">> \o Written(enums[n].name) \o <<" ","{">>
    /\ Cardinality(LinesInside(lines, 2)) = Len(Flatten([n \in 1..Len(enums) |-> enums[n].values]))
    /\ \A n \in 1..Cardinality(LinesInside(lines, 2)) :
           lines[NthOf(LinesInside(lines, 2), n)]
               = <<" "," ">> \o Written(Flatten([k \in 1..Len(enums) |-> enums[k].values])[n])

\* both endpoints, in the reference lines
RefsShowNames(lines, relations) ==
    /\ Cardinality(LinesOfRank(lines, 4)) = Len(relations)
    /\ \A n \in 1..Len(relations) :
           LineShows(lines[NthOf(LinesOfRank(lines, 4), n)],
                     WrittenEndpoints(relations[n][1], relations[n][2]))

\* group names and the tables of the groups, in the TableGroup blocks
GroupsShowNames(lines) ==
    /\ \A i \in LinesOfRank(lines, 5) :
           \E e \in 1..Len(schema.entities) :
               lines[i] = <<"T","a","b","l","e","G","r","o","u","p"," ">>
                              \o Written(IF Truthy(schema.entities[e].schema)
                                         THEN Val(schema.entities[e].schema) ELSE <<"p","u","b","l","i","c">>)
                              \o <<" ","{">>
    /\ \A i \in LinesInside(lines, 5) :
           \E e \in 1..Len(schema.entities) :
               lines[i] = <<" "," ">> \o Written(schema.entities[e].tableName)

\* the identifiers of the schema
Identifiers ==
    { schema.entities[e].tableName : e \in 1..Len(schema.entities) }
        \cup { AllColumns(schema.entities)[n].columnName : n \in 1..Len(AllColumns(schema.entities)) }
        \cup { schema.enums[n].name : n \in 1..Len(schema.enums) }
        \cup { AllRelations(schema.entities)[n][2].target : n \in 1..Len(AllRelations(schema.entities)) }
        \cup { Val(schema.entities[e].schema) :
                 e \in { f \in 1..Len(schema.entities) : IsSome(schema.entities[f].schema) } }

FreeText(clause, key) == SubSeq(clause, Len(key) + 2, Len(clause) - 1)

\* every single quote of the text follows a backslash
QuotesEscaped(text) ==
    \A i \in 1..Len(text) : text[i] = "'" => (i > 1 /\ text[i - 1] = "\\")

\* the note clauses and single-quoted default clauses among the settings escape their quotes
ClausesEscaped(settings) ==
    \A k \in 1..Len(settings) :
        /\ HasPrefix(settings[k], <<"n","o","t","e",":"," ","'">>) => QuotesEscaped(FreeText(settings[k], <<"n","o","t","e",":"," ">>))
        /\ HasPrefix(settings[k], <<"d","e","f","a","u","l","t",":"," ","'">>)
               => QuotesEscaped(FreeText(settings[k], <<"d","e","f","a","u","l","t",":"," ">>))

\* a table declaration without the brace that ends it
WithoutBrace(line) ==
    IF Len(line) >= 2 /\ SubSeq(line, Len(line) - 1, Len(line)) = <<" ","{">>
    THEN SubSeq(line, 1, Len(line) - 2) ELSE line

\* C18: in every note clause and every single-quoted default clause of the
\* document, each single quote of the free text follows a backslash.
C18_QuotesEscaped ==
    Serialized =>
        /\ \A i \in ColumnLines(LinesOf(dbml)) : ClausesEscaped(SettingsOfLine(LinesOf(dbml)[i]))
        /\ \A i \in LinesOfRank(LinesOf(dbml), 3) :
               ClausesEscaped(SettingsOfLine(WithoutBrace(LinesOf(dbml)[i])))

\* lower-case snake_case: small letters, digits and underscores
IsSnakeCase(text) ==
    \A i \in 1..Len(text) : IsLower(text[i]) \/ text[i] \in Digits \/ text[i] = "_"

\* C19: toSnakeCase applied to its own result returns that result, and an
\* identifier that is already lower-case snake_case, a leading underscore
\* included, is returned as it is.
C19_SnakeCaseIdempotent ==
    /\ pc = "reconverted" => callResult[2] = callResult[1]
    /\ (pc \in {"converted", "reconverted"} /\ IsSnakeCase(callArg)) => callResult[1] = callArg

\* the table entry of a token, for the key that is the token in lower case
TableEntry(token) ==
    { TypeMapEntries[i][2] :
        i \in { j \in 1..Len(TypeMapEntries) :
                  /\ TypeMapEntries[j][1] = toLowerCase(token)
                  /\ \A k \in (j + 1)..Len(TypeMapEntries) : TypeMapEntries[k][1] # toLowerCase(token) } }

\* C20: for a column that is no enum and no array and has no length or
\* precision, mapType returns the table entry of the lower-cased type token
\* when there is one, and the type token itself, unchanged, when there is none.
C20_UnknownTypeUnchanged ==
    pc = "mapped" =>
        IF TableEntry(callArg) # {} THEN callResult \in TableEntry(callArg)
        ELSE callResult = callArg

\* C11: every column of a create-date, update-date or delete-date property has
\* type "timestamp" and is not nullable, and every column of a version property
\* has type "integer" and is not nullable, whatever options literal the
\* decorator carries.
C11_SpecialRolesForced ==
    Done =>
        \A ij \in ColumnPositions :
            LET role == ColumnDecoratorAt(ij).name
            IN  /\ role \in {"CreateDateColumn", "UpdateDateColumn", "DeleteDateColumn"}
                       => ColumnAt(ij).type = T_timestamp /\ ~ColumnAt(ij).isNullable
                /\ role = "VersionColumn"
                       => ColumnAt(ij).type = T_integer /\ ~ColumnAt(ij).isNullable

Strategies == {T_uuid, T_increment, T_rowid}

\* the first argument of the decorator is one of the strategy literals
GivesStrategy(d) ==
    Len(d.args) > 0 /\ d.args[1].kind = "StringLiteral" /\ StripQuotes(d.args[1].text) \in Strategies

\* some options literal of the decorator gives the key
GivesOption(d, key) ==
    \E a \in 1..Len(d.args) : IsOptions(d.args[a]) /\ HasOption(d.args[a], key)

\* C12: every column of a primary-generated property is primary and generated
\* and has a generation strategy among uuid, increment, rowid: the one the
\* first argument names, and increment when the first argument names none;
\* unless an options literal gives a type, the type is uuid for the uuid
\* strategy and integer for the other two.
C12_PrimaryGenerated ==
    Done =>
        \A ij \in ColumnPositions :
            LET d == ColumnDecoratorAt(ij)
                c == ColumnAt(ij)
            IN  d.name = "PrimaryGeneratedColumn" =>
                    /\ c.isPrimary /\ c.isGenerated
                    /\ IsSome(c.generationStrategy)
                    /\ Val(c.generationStrategy) \in Strategies
                    /\ GivesStrategy(d) => Val(c.generationStrategy) = StripQuotes(d.args[1].text)
                    /\ ~GivesStrategy(d) => Val(c.generationStrategy) = T_increment
                    /\ ~GivesOption(d, "type") =>
                           c.type = IF Val(c.generationStrategy) = T_uuid THEN T_uuid ELSE T_integer

\* the initializers the enum options of a property's column decorator give
EnumOptionsOf(property) ==
    LET d == FindDecorator(property.decorators, ColumnDecorators)
    IN  IF ~IsSome(d) THEN {}
        ELSE { OptionOf(Val(d).args[a], "enum") :
                 a \in { b \in 1..Len(Val(d).args) :
                           IsOptions(Val(d).args[b]) /\ HasOption(Val(d).args[b], "enum") } }

\* the enum options of all columns of the batch
EnumOptions ==
    UNION { UNION { EnumOptionsOf(input[i].properties[j]) : j \in 1..Len(input[i].properties) } :
            i \in 1..Len(input) }

\* an initializer that resolves to an enum declaration
ResolvesToEnum(node) ==
    /\ IsSome(node.symbol)
    /\ Len(Val(node.symbol).declarations) > 0
    /\ Val(node.symbol).declarations[1].kind = "EnumDeclaration"

\* the distinct enum types the columns of the batch refer to
ReferencedEnumTypes == { Val(n.symbol) : n \in { m \in EnumOptions : ResolvesToEnum(m) } }

\* C13: the enums list of one extractMetadata call holds exactly one entry for
\* each distinct enum type its columns refer to, under that type's canonical
\* (snake-case) name, and no two entries have the same name.
C13_OneEntryPerEnumType ==
    Done =>
        /\ Len(schema.enums) = Cardinality(ReferencedEnumTypes)
        /\ \A sy \in ReferencedEnumTypes :
               Cardinality({ e \in 1..Len(schema.enums) :
                               schema.enums[e].name = toSnakeCase(sy.name) }) = 1
        /\ \A e, f \in 1..Len(schema.enums) :
               schema.enums[e].name = schema.enums[f].name => e = f

\* C14: a column whose enum option resolves to no enum declaration gets no
\* enumName, and every column that has an enumName finds an entry of that name
\* in the enums list of the schema.
C14_EnumNameHasDeclaration ==
    Done =>
        \A ij \in ColumnPositions :
            /\ (\A n \in EnumOptionsOf(ColumnPropertyAt(ij)) : ~ResolvesToEnum(n))
                   => ~IsSome(ColumnAt(ij).enumName)
            /\ IsSome(ColumnAt(ij).enumName)
                   => \E e \in 1..Len(schema.enums) :
                          schema.enums[e].name = Val(ColumnAt(ij).enumName)

\* the suffix a length gives, and the suffix a precision (with its scale) gives
LengthSuffix(column) == <<"(">> \o NumText(Val(column.length)) \o <<")">>
PrecisionSuffix(column) ==
    IF IsSome(column.scale)
    THEN <<"(">> \o NumText(Val(column.precision)) \o <<",">> \o NumText(Val(column.scale)) \o <<")">>
    ELSE <<"(">> \o NumText(Val(column.precision)) \o <<")">>

ColumnMapped == pc = "columnMapped"

\* C21: for a column that is no enum, mapType appends the length only when a
\* length is set and the type is one of the length-bearing types, and appends
\* the precision (with the scale, when there is one) whenever a precision is
\* set, with or without a length suffix.
C21_PrecisionWheneverSet ==
    (ColumnMapped /\ ~Truthy(callArg.enumName)) =>
        /\ (IsSome(callArg.length) /\ Includes(callResult, LengthSuffix(callArg)))
               => toLowerCase(callArg.type) \in LengthTypes
        /\ (~IsSome(callArg.length)) => ~Includes(callResult, <<"(","2","5","5",")">>)
        /\ IsSome(callArg.precision) => Includes(callResult, PrecisionSuffix(callArg))

\* C28: for every column with isArray = true the type mapType returns carries
\* the array suffix, also when the column is of an enum or has a length or a
\* precision.
C28_ArraySuffixAlways ==
    (ColumnMapped /\ callArg.isArray = Some(TRUE)) => Includes(callResult, <<"[","]">>)

\* the properties of a class that carry a relation decorator, in declaration order
RelationProperties(classDecl) ==
    SelectSeq(classDecl.properties,
              LAMBDA q : IsSome(FindDecorator(q.decorators, RelationDecorators)))

\* one EntityMetadata per class of the input, in input order, each with the
\* relations of the class in property order
EntitiesFollowInput ==
    /\ Len(schema.entities) = Len(input)
    /\ \A i \in 1..Len(input) :
           /\ schema.entities[i].name
                  = (IF IsSome(input[i].name) THEN Val(input[i].name) ELSE <<"U","n","k","n","o","w","n">>)
           /\ Len(schema.entities[i].relations) = Len(RelationProperties(input[i]))
           /\ \A k \in 1..Len(RelationProperties(input[i])) :
                  schema.entities[i].relations[k].propertyName = RelationProperties(input[i])[k].name

\* the reference lines of one entity: those of its relations, relation after relation
ReferenceLinesOf(entity) ==
    Flatten([k \in 1..Len(entity.relations) |->
                IF Truthy(generateRelation(entity, entity.relations[k]))
                THEN LinesOf(Val(generateRelation(entity, entity.relations[k])))
                ELSE <<>>])

\* table blocks in entity order; reference lines in entity order and, within
\* an entity, in relation order
DocumentFollowsEntities(lines) ==
    /\ Cardinality(LinesOfRank(lines, 3)) = Len(schema.entities)
    /\ \A n \in 1..Len(schema.entities) :
           LineShows(lines[NthOf(LinesOfRank(lines, 3), n)],
                     <<"T","a","b","l","e"," ">> \o Written(schema.entities[n].tableName))
    /\ [n \in 1..Cardinality(LinesOfRank(lines, 4)) |-> lines[NthOf(LinesOfRank(lines, 4), n)]]
           = Flatten([e \in 1..Len(schema.entities) |-> ReferenceLinesOf(schema.entities[e])])

\* C22: extractMetadata returns one EntityMetadata per class of the input, in
\* input order, whatever the decorators of the classes look like; generate
\* then writes the table blocks in that order and the reference lines in
\* entity order and, within an entity, in the order of the relation properties.
C22_InputOrderKept ==
    /\ pc \in {"extracted", "written"} => EntitiesFollowInput
    /\ pc = "written" => DocumentFollowsEntities(LinesOf(dbml))

\* three classes, the one without a name and with broken decorators between an
\* entity with two reference lines after it and one with three before it
C22_Witness ==
    /\ pc = "written"
    /\ input = <<W_target, W_unnamed, W_owner>>
    /\ Cardinality(LinesOfRank(LinesOf(dbml), 4)) = 6
    /\ Cardinality(LinesOfRank(LinesOf(dbml), 3)) = 3

(* Watch mode: what the file events lead to *)

\* the file event i is the last of a sequence of events that each came less
\* than DebounceDelay after the one before
EndsBurst(i) ==
    \/ i = Len(watch.events)
    \/ watch.events[i + 1] - watch.events[i] >= DebounceDelay

\* the regenerations started DebounceDelay after the file event i
StartsAfter(i) ==
    {k \in 1..Len(watch.started) : watch.started[k] = watch.events[i] + DebounceDelay}

\* the time for the regeneration of the burst that ends with event i has passed
Settled(i) ==
    /\ EndsBurst(i)
    /\ i < Len(watch.events) \/ watch.now > watch.events[i] + DebounceDelay

Debounced ==
    /\ \A k \in 1..Len(watch.started) :
           \E i \in 1..Len(watch.events) : EndsBurst(i) /\ k \in StartsAfter(i)
    /\ \A i \in 1..Len(watch.events) :
           /\ EndsBurst(i) => Cardinality(StartsAfter(i)) <= 1
           /\ Settled(i) => Cardinality(StartsAfter(i)) = 1

\* every file event has a regeneration started at or after it
AllFollowed ==
    \A i \in 1..Len(watch.events) :
        \E k \in 1..Len(watch.started) : watch.started[k] >= watch.events[i]

\* C23: in watch mode, a sequence of file events that each come less than
\* 500 ms after the one before starts exactly one regeneration, 500 ms after
\* the last event of the sequence, and once the events stop every file event
\* has been followed by a regeneration
C23_RegenerationDebounced == []Debounced /\ <>[]AllFollowed

\* three events in one burst, then the one regeneration of the burst
C23_Witness ==
    /\ Len(watch.events) = 3
    /\ watch.events[2] - watch.events[1] \in 1..(DebounceDelay - 1)
    /\ watch.events[3] - watch.events[2] \in 1..(DebounceDelay - 1)
    /\ watch.started = <<watch.events[3] + DebounceDelay>>
    /\ watch.now > watch.events[3] + DebounceDelay

\* the regenerations that have started and not ended
RunsInProgress == {r \in 1..Len(watch.runs) : watch.runs[r].phase # "done"}

\* C29: in watch mode at most one regeneration is in progress at any time, no
\* two of them write the output file at once, and when all have ended the
\* file holds what the regeneration started last has generated
C29_OneRegenerationAtATime ==
    /\ Cardinality(RunsInProgress) <= 1
    /\ Cardinality({r \in RunsInProgress : watch.runs[r].phase = "writing"}) <= 1
    /\ (watch.runs # <<>> /\ RunsInProgress = {}) =>
           watch.file = watch.runs[Len(watch.runs)].snapshot

(* Indexes: the columns they name *)

\* the physical names of the columns of a table
ColumnNamesOf(entity) == {entity.columns[k].columnName : k \in 1..Len(entity.columns)}

\* the indexes of a table name columns of the table
IndexesOverColumns(entity) ==
    \A n \in 1..Len(entity.indexes) :
        \A k \in 1..Len(entity.indexes[n].columns) :
            entity.indexes[n].columns[k] \in ColumnNamesOf(entity)

\* the table an index line of the document belongs to: the n-th Table line
\* opens the block of the n-th entity
TableOfLine(lines, i) ==
    schema.entities[Cardinality({j \in LinesOfRank(lines, 3) : j <= i})]

\* an index line lists one or two columns of its table
IndexLineOverColumns(lines, i) ==
    \E cs \in UNION {[1..n -> ColumnNamesOf(TableOfLine(lines, i))] : n \in 1..2} :
        LineShows(lines[i], <<" "," "," "," ">> \o WrittenIndexColumns([columns |-> cs]))

\* C24: every column name listed in the Indexes block of a table is the
\* physical name of a column of that table, also for a class-level index
\* declared over property names
C24_IndexesNamePhysicalColumns ==
    /\ pc \in {"extracted", "written"} =>
           \A n \in 1..Len(schema.entities) : IndexesOverColumns(schema.entities[n])
    /\ pc = "written" =>
           \A i \in IndexLines(LinesOf(dbml)) : IndexLineOverColumns(LinesOf(dbml), i)

(* Columns: what the options literal decides *)

\* the properties of a class that carry a column decorator, in declaration order
ColumnProperties(classDecl) ==
    SelectSeq(classDecl.properties,
              LAMBDA q : IsSome(FindDecorator(q.decorators, ColumnDecorators)))

\* the assignments to a key in the options literals of the column decorator
OptionsGiven(property, key) ==
    LET args == Val(FindDecorator(property.decorators, ColumnDecorators)).args
        members == Flatten([i \in 1..Len(args) |->
                               IF args[i].kind = "ObjectLiteralExpression" THEN args[i].props ELSE <<>>])
    IN  SelectSeq(members, LAMBDA m : m.kind = "PropertyAssignment" /\ m.name = key /\ IsSome(m.init))

\* the token the options literal gives for a key: the text of the last
\* assignment, without its quotes
OptionToken(property, key) ==
    StripQuotes(Val(OptionsGiven(property, key)[Len(OptionsGiven(property, key))].init).text)

\* the columns of the entities are those of the column properties of the classes
ColumnsFollowInput ==
    /\ Len(schema.entities) = Len(input)
    /\ \A i \in 1..Len(input) :
           /\ Len(schema.entities[i].columns) = Len(ColumnProperties(input[i]))
           /\ \A k \in 1..Len(ColumnProperties(input[i])) :
                  schema.entities[i].columns[k].propertyName = ColumnProperties(input[i])[k].name

\* C25: whenever the options literal of a column gives an explicit type token
\* (and no enum), the type of the extracted column is that token, whatever
\* the declared value type of the property
C25_ExplicitTypeKept ==
    pc \in {"extracted", "generated"} =>
        /\ ColumnsFollowInput
        /\ \A i \in 1..Len(input) :
               \A k \in 1..Len(ColumnProperties(input[i])) :
                   (/\ OptionsGiven(ColumnProperties(input[i])[k], "type") # <<>>
                    /\ OptionsGiven(ColumnProperties(input[i])[k], "enum") = <<>>)
                   => schema.entities[i].columns[k].type
                          = OptionToken(ColumnProperties(input[i])[k], "type")

\* the documentation comment of a property, when it has one that is a string
DocComment(property) ==
    IF Len(property.jsDocs) > 0 /\ IsSome(property.jsDocs[1]) THEN property.jsDocs[1] ELSE None

\* C26: a column whose options literal has a comment key gets that comment,
\* also when the property has a documentation comment; the documentation
\* comment is used only when the options literal sets none
C26_OptionCommentWins ==
    pc \in {"extracted", "generated"} =>
        /\ ColumnsFollowInput
        /\ \A i \in 1..Len(input) :
               \A k \in 1..Len(ColumnProperties(input[i])) :
                   schema.entities[i].columns[k].comment
                       = (IF OptionsGiven(ColumnProperties(input[i])[k], "comment") # <<>>
                          THEN Some(OptionToken(ColumnProperties(input[i])[k], "comment"))
                          ELSE DocComment(ColumnProperties(input[i])[k]))

(* Columns: enums *)

\* the value list of an enum declaration: the text of the initializer of a
\* member without its quotes, else the name of the member
EnumValuesOf(symbol) ==
    [m \in 1..Len(symbol.declarations[1].members) |->
        EnumMemberValue(symbol.declarations[1].members[m])]

\* the initializer of the last enum option of a column property
EnumGiven(property) ==
    Val(OptionsGiven(property, "enum")[Len(OptionsGiven(property, "enum"))].init)

\* C27: every column whose enum option resolves to an enum declaration gets
\* the canonical name of the enum as enumName and type and the value list
\* of the enum as enumValues, also the second and later columns of an enum
\* that is already in the registry
C27_EnumColumnsComplete ==
    pc \in {"extracted", "generated"} =>
        /\ ColumnsFollowInput
        /\ \A i \in 1..Len(input) :
               \A k \in 1..Len(ColumnProperties(input[i])) :
                   (/\ OptionsGiven(ColumnProperties(input[i])[k], "enum") # <<>>
                    /\ ResolvesToEnum(EnumGiven(ColumnProperties(input[i])[k])))
                   => LET symbol == Val(EnumGiven(ColumnProperties(input[i])[k]).symbol)
                          column == schema.entities[i].columns[k]
                      IN  /\ column.enumName = Some(toSnakeCase(symbol.name))
                          /\ column.type = toSnakeCase(symbol.name)
                          /\ column.enumValues = Some(EnumValuesOf(symbol))

(* Column lines: the default *)

\* C30: every column line of the document has at most one default clause,
\* also for a create-date or update-date column with an explicit default
C30_OneDefaultClause ==
    Serialized =>
        \A i \in ColumnLines(LinesOf(dbml)) :
            Cardinality({k \in 1..Len(SettingsOfLine(LinesOf(dbml)[i])) :
                            SettingRank(SettingsOfLine(LinesOf(dbml)[i])[k]) = 5}) <= 1

====
